---- MODULE Spec2Model ----
(***************************************************************************)
(* Model of the VLESS-Encryption installer of MScript                      *)
(* (src/VlessEncryption.py): the padding validator, the padding-chain      *)
(* builder, the composition of the two encryption strings, and the         *)
(* collection and installation flow around them.                           *)
(*                                                                         *)
(* A Python str is modelled as a sequence of one-character strings, so     *)
(* that split, join, strip, startswith and int() are computed character by *)
(* character, the way the interpreter computes them.                       *)
(***************************************************************************)
EXTENDS Integers, Sequences, FiniteSets, TLC

VARIABLES
    pc,                   \* position in get_deployment_config / configure_padding
    entered,              \* the last line read by input(), after .strip()
    valid_error,          \* the last (valid, error) returned by validate_padding_format
    use_default_padding,  \* answer to the default-padding prompt, stripped and lowered
    padding_blocks,       \* configure_padding's list of accepted block texts
    block_kinds,          \* the kind under which each block was added (its prompt)
    last_block_type,      \* configure_padding's last_block_type
    padding_config,       \* the padding string get_deployment_config ends up with
    process,              \* "running", or how the process ended: "exit0", "exit1"
    encryption_mode,      \* get_deployment_config's locals, <<>> while unassigned
    ticket_choice,
    ticket_time,
    rtt_mode,
    x25519,               \* <<private key, password>>
    mlkem768,             \* <<seed, client key>>
    port,                 \* 0 while unassigned
    uuid,
    decryption_str,
    encryption_str,
    confirm,              \* answer to the summary prompt, stripped and lowered
    config,               \* <<the dict get_deployment_config returned>>, <<>> before
    written,              \* the files written so far
    last_run,             \* <<the subprocess.run outcome a key generator saw last>>
    proc_net,             \* <<text of /proc/net/tcp, text of /proc/net/udp>>
    config_file,          \* <<the dict dumped into config.yaml>>, <<>> before
    printed,              \* what was printed: <<yaml rendering, compact rendering>> of the
                          \* client snippet; <<banner>> for the manager
    stdin                 \* the lines typed ahead on standard input

\* the builder's and the validator's variables
bvars == <<pc, entered, valid_error, use_default_padding, padding_blocks,
           block_kinds, last_block_type, padding_config>>

\* the builder's variables apart from the position
bvars_but_pc == <<entered, valid_error, use_default_padding, padding_blocks, block_kinds,
                  last_block_type, padding_config>>

\* the collector's and the installer's variables
cvars == <<process, encryption_mode, ticket_choice, ticket_time, rtt_mode,
           x25519, mlkem768, port, uuid, decryption_str, encryption_str, confirm,
           config, written, last_run, proc_net, config_file, printed, stdin>>

\* what the key generators, the emitter and the system around them add
evars == <<last_run, proc_net, config_file, printed, stdin>>

vars == <<bvars, cvars>>

----------------------------------------------------------------------------
(* Bounds of the model.                                                    *)

\* longest chain the builder is driven to
MaxBlocks == 3
\* most hyphen-separated fields of a raw validator argument
MaxFields == 4

----------------------------------------------------------------------------
(* Python str primitives.                                                  *)

Digits == <<"0", "1", "2", "3", "4", "5", "6", "7", "8", "9">>

IsDigit(c) == \E i \in 1..10 : Digits[i] = c

DigitVal(c) == (CHOOSE i \in 1..10 : Digits[i] = c) - 1

\* the whitespace characters str.strip() removes
IsSpace(c) == c \in {" ", "\t", "\n"}

\* str.strip(): leading and trailing whitespace removed
RECURSIVE strip(_)
strip(s) ==
    IF s = <<>> THEN s
    ELSE IF IsSpace(Head(s)) THEN strip(Tail(s))
    ELSE IF IsSpace(s[Len(s)]) THEN strip(SubSeq(s, 1, Len(s) - 1))
    ELSE s

\* str.lower(), on the letters the prompts compare against
LowerChar(c) ==
    CASE c = "N" -> "n"
      [] c = "O" -> "o"
      [] c = "Y" -> "y"
      [] c = "E" -> "e"
      [] c = "S" -> "s"
      [] c = "F" -> "f"
      [] c = "A" -> "a"
      [] c = "L" -> "l"
      [] c = "T" -> "t"
      [] c = "R" -> "r"
      [] c = "U" -> "u"
      [] OTHER   -> c

lower(s) == [i \in 1..Len(s) |-> LowerChar(s[i])]

\* str.split(sep) for a one-character separator: always at least one part
RECURSIVE split(_, _)
split(s, sep) ==
    IF \A i \in 1..Len(s) : s[i] # sep THEN <<s>>
    ELSE LET i == CHOOSE k \in 1..Len(s) :
                      s[k] = sep /\ \A j \in 1..(k - 1) : s[j] # sep
         IN  <<SubSeq(s, 1, i - 1)>> \o split(SubSeq(s, i + 1, Len(s)), sep)

\* sep.join(parts)
RECURSIVE join(_, _)
join(sep, parts) ==
    IF parts = <<>> THEN <<>>
    ELSE IF Len(parts) = 1 THEN parts[1]
    ELSE parts[1] \o <<sep>> \o join(sep, Tail(parts))

\* str.startswith(prefix)
startswith(s, prefix) ==
    Len(s) >= Len(prefix) /\ SubSeq(s, 1, Len(prefix)) = prefix

\* str.endswith(suffix)
endswith(s, suffix) ==
    Len(s) >= Len(suffix) /\ SubSeq(s, Len(s) - Len(suffix) + 1, Len(s)) = suffix

\* sub in s
contains(s, sub) ==
    \E i \in 1..(Len(s) - Len(sub) + 1) : SubSeq(s, i, i + Len(sub) - 1) = sub

\* s.split(sep, 1)[1]: what follows the first sep (sep occurs in s)
AfterFirst(s, sep) ==
    LET i == CHOOSE k \in 1..Len(s) : s[k] = sep /\ \A j \in 1..(k - 1) : s[j] # sep
    IN  SubSeq(s, i + 1, Len(s))

\* (variant: nothing dropped)
filter_Nothing(parts) == parts

\* filter(None, parts): the empty strings dropped
filter_None(parts) == SelectSeq(parts, LAMBDA part : part # <<>>)

\* str(n) of an int: decimal digits, '-' in front of a negative number
RECURSIVE NatText(_)
NatText(n) ==
    IF n < 10 THEN <<Digits[n + 1]>>
    ELSE NatText(n \div 10) \o <<Digits[(n % 10) + 1]>>

str(n) == IF n < 0 THEN <<"-">> \o NatText(0 - n) ELSE NatText(n)

\* int(s): whitespace stripped, an optional sign, then digits, where single
\* underscores may stand between digits; anything else raises ValueError
IntBody(s) ==
    LET u == strip(s)
    IN  IF u # <<>> /\ u[1] \in {"+", "-"} THEN Tail(u) ELSE u

IsIntLiteral(s) ==
    LET b == IntBody(s)
    IN  /\ b # <<>>
        /\ \A i \in 1..Len(b) : IsDigit(b[i]) \/ b[i] = "_"
        /\ b[1] # "_"
        /\ b[Len(b)] # "_"
        /\ \A i \in 1..(Len(b) - 1) : ~(b[i] = "_" /\ b[i + 1] = "_")

RECURSIVE DigitsValue(_)
DigitsValue(b) ==
    IF b = <<>> THEN 0
    ELSE IF b[Len(b)] = "_" THEN DigitsValue(SubSeq(b, 1, Len(b) - 1))
    ELSE 10 * DigitsValue(SubSeq(b, 1, Len(b) - 1)) + DigitVal(b[Len(b)])

int(s) ==
    LET u == strip(s)
    IN  IF u[1] = "-" THEN 0 - DigitsValue(IntBody(s)) ELSE DigitsValue(IntBody(s))

----------------------------------------------------------------------------
(* validate_padding_format                                                 *)

\* the messages of the (False, message) results
MSG_FORMAT      == "format error, expected probability-min-max"
MSG_PROBABILITY == "probability must be within 0-100"
MSG_MIN         == "min must not be below 0"
MSG_MAX         == "max must not be below min"
MSG_INTEGER     == "must be integers"

\* the body of the try block: a returned pair, or the exception it raises
ValidateBody(padding_str) ==
    LET parts == split(padding_str, "-")
    IN  IF Len(parts) # 3 THEN [returns |-> <<FALSE, MSG_FORMAT>>]
        ELSE IF \E i \in 1..3 : ~IsIntLiteral(parts[i])
             THEN [raises |-> "ValueError"]
        ELSE LET probability == int(parts[1])
                 min_val     == int(parts[2])
                 max_val     == int(parts[3])
             IN  IF probability < 0 \/ probability > 100
                     THEN [returns |-> <<FALSE, MSG_PROBABILITY>>]
                 ELSE IF min_val < 0
                     THEN [returns |-> <<FALSE, MSG_MIN>>]
                 ELSE IF max_val < min_val
                     THEN [returns |-> <<FALSE, MSG_MAX>>]
                 ELSE [returns |-> <<TRUE, "">>]

\* (variant: no except clause, the exception leaves the function)
ExceptNothing(outcome) == outcome

\* the try/except around it: ValueError becomes a (False, message) result
ExceptValueError(outcome) ==
    IF "raises" \in DOMAIN outcome /\ outcome.raises = "ValueError"
    THEN [returns |-> <<FALSE, MSG_INTEGER>>]
    ELSE outcome

validate_padding_format(padding_str) ==
    ExceptValueError(ValidateBody(padding_str))

----------------------------------------------------------------------------
(* The lines a user may type at a prompt.                                  *)

\* "p-mi-ma" as Python prints three ints joined by hyphens
Triplet(p, mi, ma) == join("-", <<str(p), str(mi), str(ma)>>)

MenuLines ==
    { <<>>, <<"1">>, <<"2">>, <<"3">>, <<" ", "2">>,
      <<"n">>, <<"N", "o">>, <<"y">> }

BlockLines ==
    { Triplet(100, 35, 50), Triplet(100, 111, 1111),      \* pass the first-block policy
      Triplet(100, 34, 50), Triplet(100, 20, 50),         \* min below 35
      <<"+">> \o Triplet(100, 35, 50),                    \* 100 spelled "+100"
      Triplet(75, 0, 111), Triplet(50, 0, 3333), Triplet(0, 0, 0),
      Triplet(75, 35, 50),                                \* min 35, probability 75
      Triplet(150, 0, 10), Triplet(101, 0, 10),           \* probability above 100
      Triplet(-5, 0, 10),                                 \* "-5-0-10"
      Triplet(50, -1, 10),                                \* "50--1-10"
      Triplet(100, 50, 35),                               \* max below min
      join("-", <<str(100), str(35)>>),                   \* two fields
      join("-", <<str(100), str(35), str(50), str(60)>>), \* four fields
      <<"a">> \o Triplet(0, 0, 10),                       \* "a0-0-10"
      Triplet(100, 35, 5) \o <<".", "0">>,                \* "100-35-5.0"
      Triplet(75, 0, 111) \o <<" ">> }                    \* trailing blank

Lines == MenuLines \cup BlockLines

----------------------------------------------------------------------------
(* configure_padding and the default-padding prompt of                     *)
(* get_deployment_config.                                                  *)

\* (variant: a default chain whose first block pads less than FIRST_MIN)
DefaultLowMin ==
    join(".", <<Triplet(100, 11, 1111), Triplet(75, 0, 111), Triplet(50, 0, 3333)>>)

\* the default chain offered by get_deployment_config
DEFAULT_PADDING ==
    join(".", <<Triplet(100, 111, 1111), Triplet(75, 0, 111), Triplet(50, 0, 3333)>>)

\* (variant: the blocks joined with the field separator)
HyphenSeparator == "-"

\* the separator configure_padding joins the blocks with
BLOCK_SEPARATOR == "."

\* the prefix a first padding must start with
FIRST_PREFIX == <<"1", "0", "0", "-">>

\* the least min of a first padding
FIRST_MIN == 35

\* (variant: the new block put in front)
appendFront(list, x) == <<x>> \o list

\* list.append
append(list, x) == Append(list, x)

\* (variant: last_block_type not switched after a delay)
DelayAddedTypeStuck == "padding"

\* the value last_block_type takes once a delay, resp. a padding, was added
DelayAddedType == "delay"
PaddingAddedType == "padding"

\* (variant: the 100-prefix test left out)
FirstPaddingCheckNoPrefix(padding1, valid) ==
    IF padding1 = <<>> THEN "empty"
    ELSE IF ~valid THEN "invalid"
    ELSE IF int(split(padding1, "-")[2]) < FIRST_MIN THEN "min"
    ELSE "ok"

\* (variant: the minimum read from the max field)
FirstPaddingCheckMaxField(padding1, valid) ==
    IF padding1 = <<>> THEN "empty"
    ELSE IF ~valid THEN "invalid"
    ELSE IF ~startswith(padding1, FIRST_PREFIX) THEN "not100"
    ELSE IF int(split(padding1, "-")[3]) < FIRST_MIN THEN "min"
    ELSE "ok"

\* the first-padding loop's verdict on a stripped line, given the validator's result
FirstPaddingCheck(padding1, valid) ==
    IF padding1 = <<>> THEN "empty"
    ELSE IF ~valid THEN "invalid"
    ELSE IF ~startswith(padding1, FIRST_PREFIX) THEN "not100"
    ELSE IF int(split(padding1, "-")[2]) < FIRST_MIN THEN "min"
    ELSE "ok"

\* the texts get_deployment_config chooses among
NATIVE == <<"n", "a", "t", "i", "v", "e">>
XORPUB == <<"x", "o", "r", "p", "u", "b">>
RANDOM == <<"r", "a", "n", "d", "o", "m">>
RTT_0  == <<"0", "r", "t", "t">>
RTT_1  == <<"1", "r", "t", "t">>

\* (variant: choice 1 leaves the ticket time blank)
TicketBlank == <<>>

\* the ticket time of choice 1
TICKET_FIXED == <<"0", "s">>

\* /proc/net/tcp and /proc/net/udp with no socket listed
NO_SOCKETS == << <<>>, <<>> >>

\* the collector's locals when the default-padding prompt is reached with
\* every earlier prompt answered by its default, run from the script
CollectorAtPadding ==
    /\ process = "running"
    /\ encryption_mode = XORPUB
    /\ ticket_choice = <<"1">>
    /\ ticket_time = TICKET_FIXED
    /\ rtt_mode = RTT_1
    /\ x25519 = <<>>
    /\ mlkem768 = <<>>
    /\ port = 0
    /\ uuid = <<>>
    /\ decryption_str = <<>>
    /\ encryption_str = <<>>
    /\ confirm = <<>>
    /\ config = <<>>
    /\ written = {}
    /\ last_run = <<>>
    /\ proc_net = NO_SOCKETS
    /\ config_file = <<>>
    /\ printed = <<>>
    /\ stdin = <<>>

Init ==
    /\ pc = "ask_default"
    /\ entered = <<>>
    /\ valid_error = <<>>
    /\ use_default_padding = <<>>
    /\ padding_blocks = <<>>
    /\ block_kinds = <<>>
    /\ last_block_type = "none"
    /\ padding_config = <<>>
    /\ CollectorAtPadding

\* "use the default padding?": anything but n/no takes the default chain
AskDefault(line) ==
    /\ pc = "ask_default"
    /\ entered' = strip(line)
    /\ use_default_padding' = lower(strip(line))
    /\ IF use_default_padding' \in { <<"n">>, <<"n", "o">> }
       THEN /\ pc' = "first"
            /\ padding_config' = padding_config
       ELSE /\ pc' = "padding_done"
            /\ padding_config' = DEFAULT_PADDING
    /\ UNCHANGED <<valid_error, padding_blocks, block_kinds, last_block_type>>
    /\ UNCHANGED cvars

\* one pass of the first-padding loop
FirstPadding(line) ==
    /\ pc = "first"
    /\ LET padding1 == strip(line)
           outcome  == IF padding1 = <<>> THEN [returns |-> valid_error]
                       ELSE validate_padding_format(padding1)
       IN  /\ entered' = padding1
           /\ IF "raises" \in DOMAIN outcome
              THEN /\ pc' = "raised"
                   /\ UNCHANGED <<valid_error, padding_blocks, block_kinds,
                                  last_block_type>>
              ELSE /\ valid_error' = outcome.returns
                   /\ IF FirstPaddingCheck(padding1,
                             padding1 # <<>> /\ outcome.returns[1]) = "ok"
                      THEN /\ padding_blocks' = append(padding_blocks, padding1)
                           /\ block_kinds' = Append(block_kinds, "padding")
                           /\ last_block_type' = "padding"
                           /\ pc' = "menu"
                      ELSE UNCHANGED <<pc, padding_blocks, block_kinds,
                                       last_block_type>>
    /\ UNCHANGED <<use_default_padding, padding_config>>
    /\ UNCHANGED cvars

\* the menu after a padding: 1 adds a delay, 2 finishes
ChooseAfterPadding(line) ==
    /\ pc = "menu"
    /\ last_block_type = "padding"
    /\ LET choice == strip(line)
       IN  /\ entered' = choice
           /\ choice = <<"1">> => Len(padding_blocks) < MaxBlocks
           /\ IF choice = <<"2">>
              THEN /\ pc' = "padding_done"
                   /\ padding_config' = join(BLOCK_SEPARATOR, padding_blocks)
              ELSE /\ pc' = IF choice = <<"1">> THEN "delay" ELSE "menu"
                   /\ padding_config' = padding_config
    /\ UNCHANGED <<valid_error, use_default_padding, padding_blocks, block_kinds,
                   last_block_type>>
    /\ UNCHANGED cvars

\* one pass of the delay loop
AddDelay(line) ==
    /\ pc = "delay"
    /\ LET delay   == strip(line)
           outcome == IF delay = <<>> THEN [returns |-> valid_error]
                      ELSE validate_padding_format(delay)
       IN  /\ entered' = delay
           /\ IF "raises" \in DOMAIN outcome
              THEN /\ pc' = "raised"
                   /\ UNCHANGED <<valid_error, padding_blocks, block_kinds,
                                  last_block_type>>
              ELSE /\ valid_error' = outcome.returns
                   /\ IF delay # <<>> /\ outcome.returns[1]
                      THEN /\ padding_blocks' = append(padding_blocks, delay)
                           /\ block_kinds' = Append(block_kinds, "delay")
                           /\ last_block_type' = DelayAddedType
                           /\ pc' = "menu"
                      ELSE UNCHANGED <<pc, padding_blocks, block_kinds,
                                       last_block_type>>
    /\ UNCHANGED <<use_default_padding, padding_config>>
    /\ UNCHANGED cvars

\* the menu after a delay: 1 adds a padding, 2 finishes
ChooseAfterDelay(line) ==
    /\ pc = "menu"
    /\ last_block_type = "delay"
    /\ LET choice == strip(line)
       IN  /\ entered' = choice
           /\ choice = <<"1">> => Len(padding_blocks) < MaxBlocks
           /\ IF choice = <<"2">>
              THEN /\ pc' = "padding_done"
                   /\ padding_config' = join(BLOCK_SEPARATOR, padding_blocks)
              ELSE /\ pc' = IF choice = <<"1">> THEN "padding" ELSE "menu"
                   /\ padding_config' = padding_config
    /\ UNCHANGED <<valid_error, use_default_padding, padding_blocks, block_kinds,
                   last_block_type>>
    /\ UNCHANGED cvars

\* one pass of the padding loop
AddPadding(line) ==
    /\ pc = "padding"
    /\ LET padding == strip(line)
           outcome == IF padding = <<>> THEN [returns |-> valid_error]
                      ELSE validate_padding_format(padding)
       IN  /\ entered' = padding
           /\ IF "raises" \in DOMAIN outcome
              THEN /\ pc' = "raised"
                   /\ UNCHANGED <<valid_error, padding_blocks, block_kinds,
                                  last_block_type>>
              ELSE /\ valid_error' = outcome.returns
                   /\ IF padding # <<>> /\ outcome.returns[1]
                      THEN /\ padding_blocks' = append(padding_blocks, padding)
                           /\ block_kinds' = Append(block_kinds, "padding")
                           /\ last_block_type' = PaddingAddedType
                           /\ pc' = "menu"
                      ELSE UNCHANGED <<pc, padding_blocks, block_kinds,
                                       last_block_type>>
    /\ UNCHANGED <<use_default_padding, padding_config>>
    /\ UNCHANGED cvars

Next ==
    \E line \in Lines :
        \/ AskDefault(line)
        \/ FirstPadding(line)
        \/ ChooseAfterPadding(line)
        \/ AddDelay(line)
        \/ ChooseAfterDelay(line)
        \/ AddPadding(line)

Spec == Init /\ [][Next]_vars

\* the menu answered with 2
FinishChosen == ChooseAfterPadding(<<"2">>) \/ ChooseAfterDelay(<<"2">>)

\* the builder with a user who does not turn down the finish choice for ever
SpecFinish == Spec /\ SF_vars(FinishChosen)

----------------------------------------------------------------------------
(* The validator on its own: one call on an argument drawn from a bounded  *)
(* set of texts.                                                           *)

TripletInts == {-5, -1, 0, 10, 35, 50, 100, 101, 150}

FieldTexts ==
    { <<>>, <<"0">>, <<"3", "5">>, <<"1", "0", "0">>, <<"+", "5">>, <<" ", "7">>,
      <<"1", "_", "0">>, <<"a">>, <<"5", ".", "0">> }

FieldSeqs == UNION { [1..n -> FieldTexts] : n \in 1..MaxFields }

ValidatorArgs ==
    { Triplet(p, mi, ma) : p \in TripletInts, mi \in TripletInts, ma \in TripletInts }
        \cup { join("-", fs) : fs \in FieldSeqs }

InitValidator ==
    /\ pc = "validate"
    /\ entered \in ValidatorArgs
    /\ valid_error = <<>>
    /\ use_default_padding = <<>>
    /\ padding_blocks = <<>>
    /\ block_kinds = <<>>
    /\ last_block_type = "none"
    /\ padding_config = <<>>
    /\ CollectorAtPadding

CallValidator ==
    /\ pc = "validate"
    /\ LET outcome == validate_padding_format(entered)
       IN  IF "raises" \in DOMAIN outcome
           THEN /\ pc' = "raised"
                /\ valid_error' = valid_error
           ELSE /\ pc' = "validated"
                /\ valid_error' = outcome.returns
    /\ UNCHANGED <<entered, use_default_padding, padding_blocks, block_kinds,
                   last_block_type, padding_config>>
    /\ UNCHANGED cvars

NextValidator == CallValidator

SpecValidator == InitValidator /\ [][NextValidator]_vars

----------------------------------------------------------------------------
(* Composition of the decryption (server) and encryption (client) strings  *)
(* in get_deployment_config.                                               *)

\* the first part of both strings
TAG == <<"m", "l", "k", "e", "m", "7", "6", "8", "x", "2", "5", "5", "1", "9", "p", "l", "u", "s">>

\* the keys the model's key generator hands out
PRIVATE_KEY == <<"a", "1">>
PASSWORD    == <<"b", "2">>
SEED        == <<"c", "3">>
CLIENT      == <<"d", "4">>

\* the identifier typed in the scenarios, and the one uuidgen prints
TYPED_UUID == <<"a", "b", "c", "-", "1", "2", "3">>
GENERATED_UUID == <<"f", "0", "e", "1">>

\* (variant: the server string built with the client's rtt mode)
decryption_parts_rtt(mode, ticket, rtt, padding, private, seed) ==
    <<TAG, mode, rtt, padding, private, seed>>

\* (variant: the server string without the ticket time)
decryption_parts_no_ticket(mode, ticket, rtt, padding, private, seed) ==
    <<TAG, mode, padding, private, seed>>

\* decryption_parts of get_deployment_config, from its locals
decryption_parts(mode, ticket, rtt, padding, private, seed) ==
    <<TAG, mode, ticket, padding, private, seed>>

\* (variant: the client string with padding ahead of the rtt mode)
encryption_parts_swapped(mode, ticket, rtt, padding, password, client) ==
    <<TAG, mode, padding, rtt, password, client>>

\* encryption_parts of get_deployment_config, from its locals
encryption_parts(mode, ticket, rtt, padding, password, client) ==
    <<TAG, mode, rtt, padding, password, client>>

\* '.'.join(filter(None, parts))
compose(parts) == join(".", filter_None(parts))

\* (variant: key generation right after the rtt prompt)
AfterStepKeysFirst(step) ==
    CASE step = "mode" -> "ticket"
      [] step = "ticket" -> "rtt"
      [] step = "rtt" -> "padding_done"
      [] step = "x25519" -> "mlkem768"
      [] step = "mlkem768" -> "port"
      [] step = "port" -> "uuid"
      [] step = "uuid" -> "compose"
      [] step = "compose" -> "confirm"
      [] step = "confirm" -> "generate_config"

\* the order of the steps of get_deployment_config: the step that follows
AfterStep(step) ==
    CASE step = "mode" -> "ticket"
      [] step = "ticket" -> "rtt"
      [] step = "rtt" -> "ask_default"
      [] step = "x25519" -> "mlkem768"
      [] step = "mlkem768" -> "port"
      [] step = "port" -> "uuid"
      [] step = "uuid" -> "compose"
      [] step = "compose" -> "confirm"
      [] step = "confirm" -> "generate_config"

\* lines 339-363: both strings are built from the locals
Compose ==
    /\ pc = "compose"
    /\ process = "running"
    /\ decryption_str' = compose(decryption_parts(encryption_mode, ticket_time, rtt_mode,
                                      padding_config, x25519[1], mlkem768[1]))
    /\ encryption_str' = compose(encryption_parts(encryption_mode, ticket_time, rtt_mode,
                                      padding_config, x25519[2], mlkem768[2]))
    /\ pc' = AfterStep("compose")
    /\ UNCHANGED <<entered, valid_error, use_default_padding, padding_blocks, block_kinds,
                   last_block_type, padding_config>>
    /\ UNCHANGED <<process, encryption_mode, ticket_choice, ticket_time, rtt_mode, x25519,
                   mlkem768, port, uuid, confirm, config, written>>
    /\ UNCHANGED evars

----------------------------------------------------------------------------
(* The composition on its own: the locals drawn from bounded sets, empty   *)
(* strings included, and the two strings built from them.                  *)

ComposeModes    == {<<>>, NATIVE, XORPUB, RANDOM}
ComposeTickets  == {<<>>, TICKET_FIXED, <<"3", "0", "0", "s">>}
ComposeRtts     == {<<>>, RTT_0, RTT_1}
ComposePaddings == {<<>>, DEFAULT_PADDING, Triplet(100, 35, 50)}

InitCompose ==
    /\ pc = "compose"
    /\ process = "running"
    /\ entered = <<>>
    /\ valid_error = <<>>
    /\ use_default_padding = <<>>
    /\ padding_blocks = <<>>
    /\ block_kinds = <<>>
    /\ last_block_type = "none"
    /\ encryption_mode \in ComposeModes
    /\ ticket_choice = <<"1">>
    /\ ticket_time \in ComposeTickets
    /\ rtt_mode \in ComposeRtts
    /\ padding_config \in ComposePaddings
    /\ x25519 \in {<<>>, PRIVATE_KEY} \X {<<>>, PASSWORD}
    /\ mlkem768 \in {<<>>, SEED} \X {<<>>, CLIENT}
    /\ port = 443
    /\ uuid = TYPED_UUID
    /\ decryption_str = <<>>
    /\ encryption_str = <<>>
    /\ confirm = <<>>
    /\ config = <<>>
    /\ written = {}
    /\ last_run = <<>>
    /\ proc_net = NO_SOCKETS
    /\ config_file = <<>>
    /\ printed = <<>>
    /\ stdin = <<>>

NextCompose == Compose

SpecCompose == InitCompose /\ [][NextCompose]_vars

----------------------------------------------------------------------------
(* install() and get_deployment_config: the whole installation run from    *)
(* the script's main block.                                                *)

\* what a statement raises; class "none" when it completes
NoException == [class |-> "none", code |-> 0]
SystemExit(code) == [class |-> "SystemExit", code |-> code]
PyException == [class |-> "Exception", code |-> 0]
KeyboardInterrupt == [class |-> "KeyboardInterrupt", code |-> 0]

\* whether "except Exception" catches it: SystemExit and KeyboardInterrupt
\* derive from BaseException only
IsException(exc) == exc.class = "Exception"

\* (variant: install() catches whatever is raised and returns)
install_handlers_return(exc) == NoException

\* what leaves install() when exc is raised inside its try block
install_handlers(exc) ==
    IF exc.class = "KeyboardInterrupt" THEN SystemExit(1)
    ELSE IF IsException(exc) THEN SystemExit(1)
    ELSE exc

\* how the process ends when the main block ends with exc
ExitStatus(exc) ==
    IF exc.class = "none" THEN "exit0"
    ELSE IF exc.class = "SystemExit" /\ exc.code = 0 THEN "exit0"
    ELSE "exit1"

\* exc is raised inside install(), called from the main block
Terminate(exc) ==
    /\ pc' = "exited"
    /\ process' = ExitStatus(install_handlers(exc))

\* one run of "mihomo generate ..." as subprocess.run sees it
Run(returncode, timed_out, stdout) ==
    [returncode |-> returncode, timed_out |-> timed_out, stdout |-> stdout]

\* the labels the key generators look for
LABEL_PRIVATE  == <<"P", "r", "i", "v", "a", "t", "e", "K", "e", "y", ":">>
LABEL_PASSWORD == <<"P", "a", "s", "s", "w", "o", "r", "d", ":">>
LABEL_SEED     == <<"S", "e", "e", "d", ":">>
LABEL_CLIENT   == <<"C", "l", "i", "e", "n", "t", ":">>

X25519Runs ==
    { Run(0, FALSE, <<"P", "r", "i", "v", "a", "t", "e", "K", "e", "y", ":", " ", "a", "1", "\n", "P", "a", "s", "s", "w", "o", "r", "d", ":", " ", "b", "2", "\n">>),
      Run(1, FALSE, <<"P", "r", "i", "v", "a", "t", "e", "K", "e", "y", ":", " ", "a", "1", "\n", "P", "a", "s", "s", "w", "o", "r", "d", ":", " ", "b", "2", "\n">>),
      Run(0, TRUE, <<>>),
      Run(0, FALSE, <<"P", "r", "i", "v", "a", "t", "e", "K", "e", "y", ":", " ", "a", "1", "\n">>),
      Run(0, FALSE, <<"P", "r", "i", "v", "a", "t", "e", "K", "e", "y", ":", " ", "\n", "P", "a", "s", "s", "w", "o", "r", "d", ":", " ", "b", "2", "\n">>),
      Run(0, FALSE, <<>>) }

Mlkem768Runs ==
    { Run(0, FALSE, <<"S", "e", "e", "d", ":", " ", "c", "3", "\n", "C", "l", "i", "e", "n", "t", ":", " ", "d", "4", "\n">>),
      Run(1, FALSE, <<>>),
      Run(0, TRUE, <<>>),
      Run(0, FALSE, <<"S", "e", "e", "d", ":", " ", "c", "3", "\n">>) }

\* the for loop over the output lines: the value after the first ':' of the
\* last line carrying each label, stripped; <<>> while none was seen
RECURSIVE ParseKeys(_, _, _, _, _)
ParseKeys(lines, first, second, a, b) ==
    IF lines = <<>> THEN <<a, b>>
    ELSE LET line == Head(lines)
         IN  IF contains(line, first)
             THEN ParseKeys(Tail(lines), first, second, strip(AfterFirst(line, ":")), b)
             ELSE IF contains(line, second)
             THEN ParseKeys(Tail(lines), first, second, a, strip(AfterFirst(line, ":")))
             ELSE ParseKeys(Tail(lines), first, second, a, b)

\* (variant: the return code of the subprocess is not looked at)
generate_key_any_returncode(run, first, second) ==
    LET pair == ParseKeys(split(strip(run.stdout), "\n"), first, second, <<>>, <<>>)
        body == IF run.timed_out THEN PyException
                ELSE IF pair[1] = <<>> \/ pair[2] = <<>> THEN PyException
                ELSE NoException
    IN  [raised |-> IF IsException(body) THEN SystemExit(1) ELSE body,
         value  |-> pair]

\* generate_x25519_key / generate_mlkem768_key: the pair returned, or what
\* the call raises
generate_key(run, first, second) ==
    LET pair == ParseKeys(split(strip(run.stdout), "\n"), first, second, <<>>, <<>>)
        body == IF run.timed_out THEN PyException
                ELSE IF run.returncode # 0 THEN PyException
                ELSE IF pair[1] = <<>> \/ pair[2] = <<>> THEN PyException
                ELSE NoException
    IN  [raised |-> IF IsException(body) THEN SystemExit(1) ELSE body,
         value  |-> pair]

\* the ports random.randint(20000, 60000) draws in the model
RandintDraws == {20000, 60000}

\* the digits of the X format
HexDigits ==
    <<"0", "1", "2", "3", "4", "5", "6", "7", "8", "9", "A", "B", "C", "D", "E", "F">>

\* format(n, "X")
RECURSIVE HexText(_)
HexText(n) ==
    IF n < 16 THEN <<HexDigits[n + 1]>>
    ELSE HexText(n \div 16) \o <<HexDigits[(n % 16) + 1]>>

\* f"{port:04X}"
RECURSIVE ZeroPad4(_)
ZeroPad4(text) == IF Len(text) >= 4 THEN text ELSE ZeroPad4(<<"0">> \o text)

hex_port(p) == ZeroPad4(HexText(p))

\* (variant: only /proc/net/tcp is looked at)
port_is_free_tcp_only(p, proc) == ~contains(proc[1], hex_port(p))

\* the test of random_free_port: the hex text is in neither file
port_is_free(p, proc) ==
    ~contains(proc[1], hex_port(p)) /\ ~contains(proc[2], hex_port(p))

\* whether get_port_input falls back on random_free_port: blank, not an
\* integer, or out of 1..65535
uses_random_port(line) ==
    \/ strip(line) = <<>>
    \/ ~IsIntLiteral(strip(line))
    \/ int(strip(line)) < 1
    \/ int(strip(line)) > 65535

\* get_port_input: the port for a typed line, free the port random_free_port
\* returns when it is called
get_port_input(line, free) ==
    IF uses_random_port(line) THEN free ELSE int(strip(line))

\* get_password_or_uuid_input(use_uuid=True)
get_password_or_uuid_input(line) ==
    IF strip(line) = <<>> THEN GENERATED_UUID ELSE strip(line)

\* (variant: a ticket time with no upper limit)
TicketNoUpper(seconds) == 300 <= seconds

\* 300 <= seconds <= 600
TicketInRange(seconds) == 300 <= seconds /\ seconds <= 600

\* (variant: a blank answer confirms)
AffirmativeOrBlank == { <<>>, <<"y">>, <<"y", "e", "s">> }

\* the answers that confirm the summary
Affirmative == { <<"y">>, <<"y", "e", "s">> }

\* the lines typed at the prompts of get_deployment_config
ModeLines    == { <<>>, <<"1">>, <<"2">>, <<"3">>, <<"4">>, <<" ", "3">> }
TicketLines  == { <<>>, <<"1">>, <<"2">>, <<"3">>, <<"0", "s">> }
CustomLines  == { <<>>, <<"3", "0", "0", "s">>, <<"6", "0", "0", "s">>, <<"3", "_", "0", "0", "s">>, <<"3", "0", "0", " ", "s">>, <<"2", "9", "9", "s">>, <<"6", "0", "1", "s">>, <<"3", "0", "0">>, <<"s">>, <<"x", "s">>, <<"-", "3", "0", "0", "s">>, <<"4", "5", "0", " ">> }
RttLines     == { <<>>, <<"1">>, <<"2">>, <<"0", "r", "t", "t">> }
PaddingLines == { <<>>, <<"n">>, <<"y">>, <<"1">>, <<"2">>, Triplet(100, 35, 50),
                  Triplet(75, 0, 111), Triplet(150, 0, 10) }
PortLines    == { <<>>, <<"4", "4", "3">>, <<"6", "5", "5", "3", "5">>, <<"0">>, <<"6", "5", "5", "3", "6">>, <<"-", "1">>, <<"a", "b", "c">> }
UuidLines    == { <<>>, TYPED_UUID, <<"1", "2", "3">>, <<"a", " ", "#", "b">> }
ConfirmLines == { <<>>, <<"y">>, <<"Y">>, <<"y", "e", "s">>, <<"Y", "e", "s", " ">>, <<"n">>, <<"o", "k">> }

\* the states in which the run waits for a line
Prompts ==
    {"mode", "ticket", "ticket_custom", "rtt", "ask_default", "first", "menu", "delay",
     "padding", "port", "uuid", "confirm"}

InitInstall ==
    /\ pc = "main"
    /\ process = "running"
    /\ entered = <<>>
    /\ valid_error = <<>>
    /\ use_default_padding = <<>>
    /\ padding_blocks = <<>>
    /\ block_kinds = <<>>
    /\ last_block_type = "none"
    /\ padding_config = <<>>
    /\ encryption_mode = <<>>
    /\ ticket_choice = <<>>
    /\ ticket_time = <<>>
    /\ rtt_mode = <<>>
    /\ x25519 = <<>>
    /\ mlkem768 = <<>>
    /\ port = 0
    /\ uuid = <<>>
    /\ decryption_str = <<>>
    /\ encryption_str = <<>>
    /\ confirm = <<>>
    /\ config = <<>>
    /\ written = {}
    /\ last_run = <<>>
    /\ proc_net = NO_SOCKETS
    /\ config_file = <<>>
    /\ printed = <<>>
    /\ stdin = <<>>

\* the main block: the root check, then install()
Main(root) ==
    /\ pc = "main"
    /\ IF root
       THEN pc' = "check_dependencies" /\ process' = process
       ELSE pc' = "exited" /\ process' = ExitStatus(SystemExit(1))
    /\ UNCHANGED bvars_but_pc
    /\ UNCHANGED <<encryption_mode, ticket_choice, ticket_time, rtt_mode, x25519, mlkem768,
                   port, uuid, decryption_str, encryption_str, confirm, config, written>>
    /\ UNCHANGED evars

\* one of install()'s first three steps: it completes, or it exits
Preparation(step, next, ok) ==
    /\ pc = step
    /\ IF ok
       THEN pc' = next /\ process' = process
       ELSE Terminate(SystemExit(1))
    /\ UNCHANGED bvars_but_pc
    /\ UNCHANGED <<encryption_mode, ticket_choice, ticket_time, rtt_mode, x25519, mlkem768,
                   port, uuid, decryption_str, encryption_str, confirm, config, written>>
    /\ UNCHANGED evars

CheckDependencies(ok) == Preparation("check_dependencies", "detect_architecture", ok)

\* (variant: the collector follows at once, install_mihomo is left out)
DetectArchitectureThenCollect(ok) == Preparation("detect_architecture", "mode", ok)

DetectArchitecture(ok) == Preparation("detect_architecture", "install_mihomo", ok)

InstallMihomo(ok) == Preparation("install_mihomo", "mode", ok)

\* lines 248-257: the encryption mode
ChooseMode(line) ==
    /\ pc = "mode"
    /\ entered' = strip(line)
    /\ LET enc_choice == IF strip(line) = <<>> THEN <<"2">> ELSE strip(line)
       IN  IF enc_choice \in { <<"1">>, <<"2">>, <<"3">> }
           THEN /\ encryption_mode' = CASE enc_choice = <<"1">> -> NATIVE
                                        [] enc_choice = <<"2">> -> XORPUB
                                        [] enc_choice = <<"3">> -> RANDOM
                /\ pc' = AfterStep("mode")
           ELSE /\ encryption_mode' = encryption_mode
                /\ pc' = pc
    /\ UNCHANGED <<valid_error, use_default_padding, padding_blocks, block_kinds,
                   last_block_type, padding_config>>
    /\ UNCHANGED <<process, ticket_choice, ticket_time, rtt_mode, x25519, mlkem768,
                   port, uuid, decryption_str, encryption_str, confirm, config, written>>
    /\ UNCHANGED evars

\* lines 265-274: the ticket choice; choice 1 fixes the ticket time
ChooseTicket(line) ==
    /\ pc = "ticket"
    /\ entered' = strip(line)
    /\ ticket_choice' = IF strip(line) = <<>> THEN <<"1">> ELSE strip(line)
    /\ IF ticket_choice' = <<"1">>
       THEN ticket_time' = TICKET_FIXED /\ pc' = AfterStep("ticket")
       ELSE IF ticket_choice' = <<"2">>
       THEN ticket_time' = ticket_time /\ pc' = "ticket_custom"
       ELSE ticket_time' = ticket_time /\ pc' = pc
    /\ UNCHANGED <<valid_error, use_default_padding, padding_blocks, block_kinds,
                   last_block_type, padding_config>>
    /\ UNCHANGED <<process, encryption_mode, rtt_mode, x25519, mlkem768,
                   port, uuid, decryption_str, encryption_str, confirm, config, written>>
    /\ UNCHANGED evars

\* lines 276-289: the custom ticket time
CustomTicket(line) ==
    /\ pc = "ticket_custom"
    /\ entered' = strip(line)
    /\ LET custom_time == strip(line)
           seconds == SubSeq(custom_time, 1, Len(custom_time) - 1)
       IN  IF /\ endswith(custom_time, <<"s">>)
              /\ IsIntLiteral(seconds)
              /\ TicketInRange(int(seconds))
           THEN ticket_time' = custom_time /\ pc' = AfterStep("ticket")
           ELSE ticket_time' = ticket_time /\ pc' = pc
    /\ UNCHANGED <<valid_error, use_default_padding, padding_blocks, block_kinds,
                   last_block_type, padding_config>>
    /\ UNCHANGED <<process, encryption_mode, ticket_choice, rtt_mode, x25519, mlkem768,
                   port, uuid, decryption_str, encryption_str, confirm, config, written>>
    /\ UNCHANGED evars

\* lines 296-309: the rtt mode
ChooseRtt(line) ==
    /\ pc = "rtt"
    /\ entered' = strip(line)
    /\ LET rtt_choice == IF strip(line) = <<>> THEN <<"2">> ELSE strip(line)
       IN  IF rtt_choice \in { <<"1">>, <<"2">> }
           THEN /\ rtt_mode' = IF rtt_choice = <<"1">> THEN RTT_0 ELSE RTT_1
                /\ pc' = AfterStep("rtt")
           ELSE /\ rtt_mode' = rtt_mode
                /\ pc' = pc
    /\ UNCHANGED <<valid_error, use_default_padding, padding_blocks, block_kinds,
                   last_block_type, padding_config>>
    /\ UNCHANGED <<process, encryption_mode, ticket_choice, ticket_time, x25519, mlkem768,
                   port, uuid, decryption_str, encryption_str, confirm, config, written>>
    /\ UNCHANGED evars

\* line 326, once the padding string is there
GenerateX25519(run) ==
    /\ pc = "padding_done"
    /\ LET result == generate_key(run, LABEL_PRIVATE, LABEL_PASSWORD)
       IN  IF result.raised = NoException
           THEN x25519' = result.value /\ pc' = AfterStep("x25519") /\ process' = process
           ELSE x25519' = x25519 /\ Terminate(result.raised)
    /\ last_run' = <<run>>
    /\ UNCHANGED bvars_but_pc
    /\ UNCHANGED <<encryption_mode, ticket_choice, ticket_time, rtt_mode, mlkem768,
                   port, uuid, decryption_str, encryption_str, confirm, config, written>>
    /\ UNCHANGED <<proc_net, config_file, printed, stdin>>

\* line 327
GenerateMlkem768(run) ==
    /\ pc = "mlkem768"
    /\ LET result == generate_key(run, LABEL_SEED, LABEL_CLIENT)
       IN  IF result.raised = NoException
           THEN mlkem768' = result.value /\ pc' = AfterStep("mlkem768") /\ process' = process
           ELSE mlkem768' = mlkem768 /\ Terminate(result.raised)
    /\ last_run' = <<run>>
    /\ UNCHANGED bvars_but_pc
    /\ UNCHANGED <<encryption_mode, ticket_choice, ticket_time, rtt_mode, x25519,
                   port, uuid, decryption_str, encryption_str, confirm, config, written>>
    /\ UNCHANGED <<proc_net, config_file, printed, stdin>>

\* line 331
GetPort(line, free) ==
    /\ pc = "port"
    /\ uses_random_port(line) => port_is_free(free, proc_net)
    /\ entered' = strip(line)
    /\ port' = get_port_input(line, free)
    /\ pc' = AfterStep("port")
    /\ UNCHANGED <<valid_error, use_default_padding, padding_blocks, block_kinds,
                   last_block_type, padding_config>>
    /\ UNCHANGED <<process, encryption_mode, ticket_choice, ticket_time, rtt_mode, x25519,
                   mlkem768, uuid, decryption_str, encryption_str, confirm, config, written>>
    /\ UNCHANGED evars

\* line 335
GetUuid(line) ==
    /\ pc = "uuid"
    /\ entered' = strip(line)
    /\ uuid' = get_password_or_uuid_input(line)
    /\ pc' = AfterStep("uuid")
    /\ UNCHANGED <<valid_error, use_default_padding, padding_blocks, block_kinds,
                   last_block_type, padding_config>>
    /\ UNCHANGED <<process, encryption_mode, ticket_choice, ticket_time, rtt_mode, x25519,
                   mlkem768, port, decryption_str, encryption_str, confirm, config, written>>
    /\ UNCHANGED evars

\* (variant: the dict with the two X25519 values under each other's key)
returned_dict_keys_crossed ==
    [encryption_mode |-> encryption_mode, rtt_mode |-> rtt_mode,
     ticket_time |-> ticket_time, padding_config |-> padding_config,
     x25519_private |-> x25519[2], x25519_password |-> x25519[1],
     mlkem768_seed |-> mlkem768[1], mlkem768_client |-> mlkem768[2],
     decryption_str |-> decryption_str, encryption_str |-> encryption_str,
     port |-> port, uuid |-> uuid]

\* lines 383-396: the dict get_deployment_config returns
returned_dict ==
    [encryption_mode |-> encryption_mode, rtt_mode |-> rtt_mode,
     ticket_time |-> ticket_time, padding_config |-> padding_config,
     x25519_private |-> x25519[1], x25519_password |-> x25519[2],
     mlkem768_seed |-> mlkem768[1], mlkem768_client |-> mlkem768[2],
     decryption_str |-> decryption_str, encryption_str |-> encryption_str,
     port |-> port, uuid |-> uuid]

\* lines 378-396: the summary prompt; the dict is returned or the run exits
Confirm(line) ==
    /\ pc = "confirm"
    /\ entered' = strip(line)
    /\ confirm' = lower(strip(line))
    /\ IF confirm' \in Affirmative
       THEN /\ config' = <<returned_dict>>
            /\ pc' = AfterStep("confirm")
            /\ process' = process
       ELSE /\ config' = config
            /\ Terminate(SystemExit(1))
    /\ UNCHANGED <<valid_error, use_default_padding, padding_blocks, block_kinds,
                   last_block_type, padding_config>>
    /\ UNCHANGED <<encryption_mode, ticket_choice, ticket_time, rtt_mode, x25519, mlkem768,
                   port, uuid, decryption_str, encryption_str, written>>
    /\ UNCHANGED evars

\* str(True), str(False)
bool_text(b) == IF b THEN <<"T", "r", "u", "e">> ELSE <<"F", "a", "l", "s", "e">>

\* whether yaml.dump puts a str in quotes: the empty string, a text that
\* would be read as an integer, a text with a comment mark
yaml_needs_quotes(text) ==
    \/ text = <<>>
    \/ \A i \in 1..Len(text) : IsDigit(text[i])
    \/ contains(text, <<" ", "#">>)

\* yaml.dump of a str, an int and a bool as block-style scalars
yaml_str(text) == IF yaml_needs_quotes(text) THEN <<"'">> \o text \o <<"'">> ELSE text
yaml_int(n) == str(n)
yaml_bool(b) == lower(bool_text(b))

\* yaml.dump of one "key: value" line after the given lead
yaml_line(lead, key, scalar) == lead \o key \o <<":", " ">> \o scalar \o <<"\n">>

\* generate_config: config.yaml as yaml.dump(config_dict) writes it
config_yaml(c) ==
    yaml_line(<<>>, <<"l", "i", "s", "t", "e", "n", "e", "r", "s">>, <<>>)
    \o yaml_line(<<"-", " ">>, <<"n", "a", "m", "e">>, yaml_str(<<"v", "l", "e", "s", "s", "-", "e", "n", "c", "r", "y", "p", "t", "i", "o", "n", "-", "i", "n", "-", "1">>))
    \o yaml_line(<<" ", " ">>, <<"t", "y", "p", "e">>, yaml_str(<<"v", "l", "e", "s", "s">>))
    \o yaml_line(<<" ", " ">>, <<"p", "o", "r", "t">>, yaml_int(c.port))
    \o yaml_line(<<" ", " ">>, <<"l", "i", "s", "t", "e", "n">>, yaml_str(<<"0", ".", "0", ".", "0", ".", "0">>))
    \o yaml_line(<<" ", " ">>, <<"u", "s", "e", "r", "s">>, <<>>)
    \o yaml_line(<<" ", " ", "-", " ">>, <<"u", "s", "e", "r", "n", "a", "m", "e">>, yaml_str(<<"u", "s", "e", "r", "1">>))
    \o yaml_line(<<" ", " ", " ", " ">>, <<"u", "u", "i", "d">>, yaml_str(c.uuid))
    \o yaml_line(<<" ", " ">>, <<"d", "e", "c", "r", "y", "p", "t", "i", "o", "n">>, yaml_str(c.decryption_str))

\* the address get_public_ip returns
PUBLIC_IP == <<"2", "0", "3", ".", "0", ".", "1", "1", "3", ".", "7">>

\* client_config['name']
client_name(c) == <<"V", "l", "e", "s", "s", "E", "n", "c", "|">> \o c.encryption_mode \o <<"|">> \o c.rtt_mode

\* print_final_info: yaml.dump([client_config]) in block style
yaml_output(c, public_ip) ==
    yaml_line(<<"-", " ">>, <<"n", "a", "m", "e">>, yaml_str(client_name(c)))
    \o yaml_line(<<" ", " ">>, <<"s", "e", "r", "v", "e", "r">>, yaml_str(public_ip))
    \o yaml_line(<<" ", " ">>, <<"t", "y", "p", "e">>, yaml_str(<<"v", "l", "e", "s", "s">>))
    \o yaml_line(<<" ", " ">>, <<"p", "o", "r", "t">>, yaml_int(c.port))
    \o yaml_line(<<" ", " ">>, <<"u", "u", "i", "d">>, yaml_str(c.uuid))
    \o yaml_line(<<" ", " ">>, <<"n", "e", "t", "w", "o", "r", "k">>, yaml_str(<<"t", "c", "p">>))
    \o yaml_line(<<" ", " ">>, <<"u", "d", "p">>, yaml_bool(TRUE))
    \o yaml_line(<<" ", " ">>, <<"e", "n", "c", "r", "y", "p", "t", "i", "o", "n">>, yaml_str(c.encryption_str))
    \o yaml_line(<<" ", " ">>, <<"t", "l", "s">>, yaml_bool(FALSE))

\* one f-string of compact_parts
compact_part(key, text) == key \o <<":", " ">> \o text

\* ", ".join(parts)
RECURSIVE join_comma_space(_)
join_comma_space(parts) ==
    IF parts = <<>> THEN <<>>
    ELSE IF Len(parts) = 1 THEN parts[1]
    ELSE parts[1] \o <<",", " ">> \o join_comma_space(Tail(parts))

\* print_final_info: the one-line rendering
compact(c, public_ip) ==
    <<"-", " ", "{">>
    \o join_comma_space(<< compact_part(<<"n", "a", "m", "e">>, <<"\"">> \o client_name(c) \o <<"\"">>),
                           compact_part(<<"t", "y", "p", "e">>, <<"v", "l", "e", "s", "s">>),
                           compact_part(<<"s", "e", "r", "v", "e", "r">>, public_ip),
                           compact_part(<<"p", "o", "r", "t">>, str(c.port)),
                           compact_part(<<"u", "u", "i", "d">>, c.uuid),
                           compact_part(<<"n", "e", "t", "w", "o", "r", "k">>, <<"t", "c", "p">>),
                           compact_part(<<"u", "d", "p">>, lower(bool_text(TRUE))),
                           compact_part(<<"e", "n", "c", "r", "y", "p", "t", "i", "o", "n">>, <<"\"">> \o c.encryption_str \o <<"\"">>),
                           compact_part(<<"t", "l", "s">>, lower(bool_text(FALSE))) >>)
    \o <<"}">>

\* generate_config(config): config.yaml is written, or the step fails
GenerateConfig(ok) ==
    /\ pc = "generate_config"
    /\ IF ok
       THEN /\ written' = written \cup {"config.yaml"}
            /\ config_file' = <<config_yaml(config[1])>>
            /\ pc' = "create_systemd_service"
            /\ process' = process
       ELSE /\ written' = written
            /\ config_file' = config_file
            /\ Terminate(PyException)
    /\ UNCHANGED bvars_but_pc
    /\ UNCHANGED <<encryption_mode, ticket_choice, ticket_time, rtt_mode, x25519, mlkem768,
                   port, uuid, decryption_str, encryption_str, confirm, config>>
    /\ UNCHANGED <<last_run, proc_net, printed, stdin>>

\* create_systemd_service(): write_text fails, or the unit is written and a
\* systemctl call fails, or the unit is written and the service started
CreateSystemdService(outcome) ==
    /\ pc = "create_systemd_service"
    /\ written' = IF outcome = "write_failed" THEN written
                  ELSE written \cup {"mihomo.service"}
    /\ IF outcome = "started"
       THEN pc' = "print_final_info" /\ process' = process
       ELSE Terminate(PyException)
    /\ UNCHANGED bvars_but_pc
    /\ UNCHANGED <<encryption_mode, ticket_choice, ticket_time, rtt_mode, x25519, mlkem768,
                   port, uuid, decryption_str, encryption_str, confirm, config>>
    /\ UNCHANGED evars

\* print_final_info(config), then install() returns and the main block ends
PrintFinalInfo ==
    /\ pc = "print_final_info"
    /\ printed' = <<yaml_output(config[1], PUBLIC_IP), compact(config[1], PUBLIC_IP)>>
    /\ pc' = "exited"
    /\ process' = ExitStatus(NoException)
    /\ UNCHANGED bvars_but_pc
    /\ UNCHANGED <<encryption_mode, ticket_choice, ticket_time, rtt_mode, x25519, mlkem768,
                   port, uuid, decryption_str, encryption_str, confirm, config, written>>
    /\ UNCHANGED <<last_run, proc_net, config_file, stdin>>

\* Ctrl-C while a prompt waits
Interrupt ==
    /\ pc \in Prompts
    /\ Terminate(KeyboardInterrupt)
    /\ UNCHANGED bvars_but_pc
    /\ UNCHANGED <<encryption_mode, ticket_choice, ticket_time, rtt_mode, x25519, mlkem768,
                   port, uuid, decryption_str, encryption_str, confirm, config, written>>
    /\ UNCHANGED evars

NextInstall ==
    \/ \E root \in BOOLEAN : Main(root)
    \/ \E ok \in BOOLEAN : CheckDependencies(ok)
    \/ \E ok \in BOOLEAN : DetectArchitecture(ok)
    \/ \E ok \in BOOLEAN : InstallMihomo(ok)
    \/ \E line \in ModeLines : ChooseMode(line)
    \/ \E line \in TicketLines : ChooseTicket(line)
    \/ \E line \in CustomLines : CustomTicket(line)
    \/ \E line \in RttLines : ChooseRtt(line)
    \/ \E line \in PaddingLines : AskDefault(line)
    \/ \E line \in PaddingLines : FirstPadding(line)
    \/ \E line \in PaddingLines : ChooseAfterPadding(line)
    \/ \E line \in PaddingLines : AddDelay(line)
    \/ \E line \in PaddingLines : ChooseAfterDelay(line)
    \/ \E line \in PaddingLines : AddPadding(line)
    \/ \E run \in X25519Runs : GenerateX25519(run)
    \/ \E run \in Mlkem768Runs : GenerateMlkem768(run)
    \/ \E line \in PortLines, free \in RandintDraws : GetPort(line, free)
    \/ \E line \in UuidLines : GetUuid(line)
    \/ Compose
    \/ \E line \in ConfirmLines : Confirm(line)
    \/ \E ok \in BOOLEAN : GenerateConfig(ok)
    \/ \E outcome \in {"write_failed", "systemctl_failed", "started"} :
           CreateSystemdService(outcome)
    \/ PrintFinalInfo
    \/ Interrupt

SpecInstall == InitInstall /\ [][NextInstall]_vars

----------------------------------------------------------------------------
(* get_port_input on its own: one call at the port prompt, over more lines *)
(* and over several contents of /proc/net/tcp and /proc/net/udp.           *)

PortArgs ==
    { <<>>, <<"1">>, <<"4", "4", "3">>, <<"1", "0", "2", "3">>, <<"1", "0", "2", "4">>, <<"6", "5", "5", "3", "5">>, <<"6", "5", "5", "3", "6">>, <<"0">>, <<"-", "1">>, <<"a", "b", "c">>, <<" ", "8", "0", " ">>, <<"+", "2", "2">>, <<"8", "_", "0">>, <<"9", "9", "9", "9", "9">>, <<"4", ".", "4">>, <<"2", "0", "0", "0", "0">>, <<"0", "x", "5", "0">>, <<" ", " ">> }

\* one socket line of /proc/net/tcp or /proc/net/udp, by its local port in hex
SocketLine(hex) ==
    <<"0", ":", " ", "0", "0", "0", "0", "0", "0", "0", "0", ":">> \o hex \o <<" ", "0", "0", "0", "0", "0", "0", "0", "0", ":", "0", "0", "0", "0", " ", "0", "A">>

\* a socket whose remote address, not its port, carries the digits 4E20
ADDRESS_4E20 ==
    <<"1", ":", " ", "0", "1", "0", "0", "0", "0", "7", "F", ":", "0", "0", "3", "5", " ", "4", "E", "2", "0", "0", "A", "0", "A", ":", "0", "1", "B", "B", " ", "0", "1">>

ProcNets ==
    { NO_SOCKETS,
      << SocketLine(hex_port(20000)), <<>> >>,
      << <<>>, SocketLine(hex_port(20000)) >>,
      << SocketLine(hex_port(60000)), <<>> >>,
      << SocketLine(hex_port(443)), SocketLine(hex_port(60000)) >>,
      << SocketLine(hex_port(20000)), SocketLine(hex_port(60000)) >>,
      << ADDRESS_4E20, <<>> >> }

InitPort ==
    /\ pc = "port"
    /\ process = "running"
    /\ entered = <<>>
    /\ valid_error = <<>>
    /\ use_default_padding = <<>>
    /\ padding_blocks = <<>>
    /\ block_kinds = <<>>
    /\ last_block_type = "none"
    /\ padding_config = DEFAULT_PADDING
    /\ encryption_mode = XORPUB
    /\ ticket_choice = <<"1">>
    /\ ticket_time = TICKET_FIXED
    /\ rtt_mode = RTT_1
    /\ x25519 = <<PRIVATE_KEY, PASSWORD>>
    /\ mlkem768 = <<SEED, CLIENT>>
    /\ port = 0
    /\ uuid = <<>>
    /\ decryption_str = <<>>
    /\ encryption_str = <<>>
    /\ confirm = <<>>
    /\ config = <<>>
    /\ written = {}
    /\ last_run \in { <<r>> : r \in {m \in Mlkem768Runs :
                         generate_key(m, LABEL_SEED, LABEL_CLIENT).raised = NoException} }
    /\ proc_net \in ProcNets
    /\ config_file = <<>>
    /\ printed = <<>>
    /\ stdin = <<>>

NextPort == \E line \in PortArgs, free \in RandintDraws : GetPort(line, free)

SpecPort == InitPort /\ [][NextPort]_vars

----------------------------------------------------------------------------
(* MScript.py: main() constructs a MihomoManager and calls run().           *)

\* the most lines typed ahead
MaxTyped == 2

\* answers to the main menu
MenuChoices == { <<>>, <<"0">>, <<"1">>, <<"5">>, <<"7">> }

TypedAhead == UNION { [1..n -> MenuChoices] : n \in 0..MaxTyped }

\* what sh.whoami() returns
WhoamiOutputs == { <<"r", "o", "o", "t", "\n">>, <<"u", "b", "u", "n", "t", "u", "\n">> }

\* the text __init__ prints
BANNER == <<"M", "S", "c", "r", "i", "p", "t">>

InitManager ==
    /\ pc = "manager_init"
    /\ process = "running"
    /\ stdin \in TypedAhead
    /\ entered = <<>>
    /\ valid_error = <<>>
    /\ use_default_padding = <<>>
    /\ padding_blocks = <<>>
    /\ block_kinds = <<>>
    /\ last_block_type = "none"
    /\ padding_config = <<>>
    /\ encryption_mode = <<>>
    /\ ticket_choice = <<>>
    /\ ticket_time = <<>>
    /\ rtt_mode = <<>>
    /\ x25519 = <<>>
    /\ mlkem768 = <<>>
    /\ port = 0
    /\ uuid = <<>>
    /\ decryption_str = <<>>
    /\ encryption_str = <<>>
    /\ confirm = <<>>
    /\ config = <<>>
    /\ written = {}
    /\ last_run = <<>>
    /\ proc_net = NO_SOCKETS
    /\ config_file = <<>>
    /\ printed = <<>>

\* what no step of the manager touches
ManagerFrame ==
    /\ UNCHANGED bvars_but_pc
    /\ UNCHANGED <<encryption_mode, ticket_choice, ticket_time, rtt_mode, x25519, mlkem768,
                   port, uuid, decryption_str, encryption_str, confirm, config, written>>
    /\ UNCHANGED <<last_run, proc_net, config_file, stdin>>

\* MihomoManager(): the protocol table is set, print_banner is defined as a
\* function local to __init__, and the banner is printed
ManagerInit ==
    /\ pc = "manager_init"
    /\ printed' = <<BANNER>>
    /\ pc' = "run"
    /\ process' = process
    /\ ManagerFrame

\* run(), lines 221-224: anyone but root is turned away
RootCheck(whoami) ==
    /\ pc = "run"
    /\ IF strip(whoami) # <<"r", "o", "o", "t">>
       THEN pc' = "exited" /\ process' = ExitStatus(SystemExit(1))
       ELSE pc' = "print_banner" /\ process' = process
    /\ printed' = printed
    /\ ManagerFrame

\* run(), line 227: self.print_banner() is looked up on the instance and its
\* class, neither has it, and the AttributeError leaves run() and main()
\* (the call stands before the try of the main loop)
PrintBanner ==
    /\ pc = "print_banner"
    /\ pc' = "exited"
    /\ process' = ExitStatus(PyException)
    /\ printed' = printed
    /\ ManagerFrame

NextManager ==
    \/ ManagerInit
    \/ \E whoami \in WhoamiOutputs : RootCheck(whoami)
    \/ PrintBanner

\* the manager does not stop while a step is to be taken
SpecManager == InitManager /\ [][NextManager]_vars /\ WF_vars(NextManager)

----------------------------------------------------------------------------
(* Vocabulary of the properties.                                           *)

\* the error kinds of the (False, message) results
FormatErrors == {MSG_FORMAT, MSG_INTEGER}
RangeErrors  == {MSG_PROBABILITY, MSG_MIN, MSG_MAX}

\* exactly three hyphen-separated integer fields, read off the characters
ThreeIntegerFields(s) ==
    \E i, j \in 1..Len(s) :
        /\ i < j
        /\ \A k \in 1..Len(s) : (s[k] = "-") <=> (k \in {i, j})
        /\ IsIntLiteral(SubSeq(s, 1, i - 1))
        /\ IsIntLiteral(SubSeq(s, i + 1, j - 1))
        /\ IsIntLiteral(SubSeq(s, j + 1, Len(s)))

\* the builder was invoked (the default chain was declined)
ViaBuilder == use_default_padding \in { <<"n">>, <<"n", "o">> }

\* the states in which configure_padding waits for a line
BuilderPrompts == {"first", "menu", "delay", "padding"}

\* the kind a block has by its position in a chain
KindAt(i) == IF i % 2 = 1 THEN "padding" ELSE "delay"

\* one "probability-min-max" segment read back as a block
ParseBlock(kind, seg) ==
    LET f == split(seg, "-")
    IN  IF Len(f) = 3 /\ \A i \in 1..3 : IsIntLiteral(f[i])
        THEN [kind |-> kind, ok |-> TRUE, probability |-> int(f[1]),
              min |-> int(f[2]), max |-> int(f[3])]
        ELSE [kind |-> kind, ok |-> FALSE, probability |-> 0, min |-> 0, max |-> 0]

\* a serialized chain read back: split on '.', kinds by position
ParseChain(s) ==
    LET segs == split(s, ".")
    IN  [i \in 1..Len(segs) |-> ParseBlock(KindAt(i), segs[i])]

\* the texts of the triplets over TripletInts, by the bound they break
TripletsOutOfRangeProbability ==
    { Triplet(p, mi, ma) : p \in {q \in TripletInts : q < 0 \/ q > 100},
                           mi \in TripletInts, ma \in TripletInts }

TripletsNegativeMin ==
    { Triplet(p, mi, ma) : p \in {q \in TripletInts : 0 <= q /\ q <= 100},
                           mi \in {q \in TripletInts : q < 0}, ma \in TripletInts }

----------------------------------------------------------------------------
(* Properties of the validator (checked under SpecValidator).              *)

\* C1: the validator accepts every triplet p-mi-ma with 0<=p<=100 and
\* 0<=mi<=ma, and rejects every triplet that breaks a bound with the range
\* error of a bound it breaks.
C1_ValidatorDecidesTriplets ==
    \A p, mi, ma \in TripletInts :
        (pc # "validate" /\ entered = Triplet(p, mi, ma)) =>
            /\ pc = "validated"
            /\ IF 0 <= p /\ p <= 100 /\ 0 <= mi /\ mi <= ma
               THEN valid_error = <<TRUE, "">>
               ELSE /\ valid_error[1] = FALSE
                    /\ \/ valid_error[2] = MSG_PROBABILITY /\ (p < 0 \/ p > 100)
                       \/ valid_error[2] = MSG_MIN /\ mi < 0
                       \/ valid_error[2] = MSG_MAX /\ ma < mi

\* C2: every argument that is not exactly three hyphen-separated integer
\* fields gets a format error, and no call raises: it returns a pair whose
\* first component is a boolean.
C2_MalformedIsFormatError ==
    pc # "validate" =>
        /\ pc = "validated"
        /\ valid_error[1] \in BOOLEAN
        /\ ~ThreeIntegerFields(entered) =>
               valid_error[1] = FALSE /\ valid_error[2] \in FormatErrors

\* a non-integer field went through int() and came back as a format error
C2_Witness ==
    /\ pc = "validated"
    /\ entered = <<"a", "-", "0", "-", "0">>
    /\ valid_error = <<FALSE, MSG_INTEGER>>

\* C3: a triplet with a negative min (and a probability within 0..100) is
\* rejected with the range error for min < 0.
C3_NegativeMinIsRangeError ==
    (pc # "validate" /\ entered \in TripletsNegativeMin) =>
        pc = "validated" /\ valid_error = <<FALSE, MSG_MIN>>

----------------------------------------------------------------------------
(* Properties of the builder (checked under Spec).                         *)

\* C4: a triplet with a probability outside 0..100, entered in any builder
\* state, is rejected by the validator with a range error, and the builder
\* prompts again: no block appended, state unchanged.
C4_OutOfRangeProbabilityRejected ==
    [][ (pc \in BuilderPrompts /\ entered' \in TripletsOutOfRangeProbability) =>
            /\ pc' = pc
            /\ padding_blocks' = padding_blocks
            /\ block_kinds' = block_kinds
            /\ last_block_type' = last_block_type
            /\ pc # "menu" =>
                   valid_error'[1] = FALSE /\ valid_error'[2] \in RangeErrors ]_vars

\* C5: the first block of the list, and of every chain configure_padding
\* returns, has probability 100 and min >= 35.
C5_FirstBlockPolicy ==
    /\ padding_blocks # <<>> =>
           LET b == ParseBlock("padding", padding_blocks[1])
           IN  b.ok /\ b.probability = 100 /\ b.min >= 35
    /\ (pc = "padding_done" /\ ViaBuilder) =>
           LET b == ParseBlock("padding", split(padding_config, ".")[1])
           IN  b.ok /\ b.probability = 100 /\ b.min >= 35

\* a chain was returned whose first block sits on the boundary min = 35
C5_Witness ==
    /\ pc = "padding_done"
    /\ ViaBuilder
    /\ split(padding_config, ".")[1] = Triplet(100, 35, 50)

\* C6: in AwaitFirstPadding a line is accepted exactly when it passes the
\* validator and has probability 100 and min >= 35, whatever its spelling;
\* it is then appended as Padding and the builder moves on, and every other
\* line leaves the builder where it was.
C6_FirstPaddingAcceptance ==
    [][ pc = "first" =>
            IF /\ entered' # <<>>
               /\ validate_padding_format(entered').returns[1]
               /\ ParseBlock("padding", entered').probability = 100
               /\ ParseBlock("padding", entered').min >= 35
            THEN /\ pc' = "menu"
                 /\ last_block_type' = "padding"
                 /\ padding_blocks' = <<entered'>>
                 /\ block_kinds' = <<"padding">>
            ELSE /\ pc' = "first"
                 /\ padding_blocks' = <<>>
                 /\ block_kinds' = <<>> ]_vars

\* C7: a first padding that passes the triplet check with min < 35 is turned
\* down by the policy: the chain stays empty and the first-padding prompt
\* comes again.
C7_LowMinFirstPaddingRejected ==
    [][ ( /\ pc = "first"
          /\ entered' # <<>>
          /\ validate_padding_format(entered').returns[1]
          /\ ParseBlock("padding", entered').min < 35 ) =>
            /\ valid_error' = <<TRUE, "">>
            /\ pc' = "first"
            /\ padding_blocks' = <<>>
            /\ block_kinds' = <<>> ]_vars

\* "100-20-50" was entered as first padding and the builder still waits
C7_Witness ==
    /\ pc = "first"
    /\ entered = Triplet(100, 20, 50)
    /\ valid_error = <<TRUE, "">>
    /\ padding_blocks = <<>>

\* C8: in every state, and in every returned chain, the blocks alternate:
\* Padding at positions 1, 3, ..., Delay at positions 2, 4, ...; no two
\* neighbours share a kind.
C8_Alternation ==
    /\ Len(block_kinds) = Len(padding_blocks)
    /\ \A i \in 1..Len(block_kinds) : block_kinds[i] = KindAt(i)
    /\ \A i \in 1..(Len(block_kinds) - 1) : block_kinds[i] # block_kinds[i + 1]
    /\ (pc = "padding_done" /\ ViaBuilder) =>
           Len(split(padding_config, ".")) = Len(block_kinds)

\* a chain of three blocks was returned
C8_Witness ==
    /\ pc = "padding_done"
    /\ block_kinds = <<"padding", "delay", "padding">>
    /\ Len(split(padding_config, ".")) = 3

\* C9: the list only ever grows by the accepted line, at its end, and the
\* string configure_padding returns is non-empty, starts with a Padding
\* block and splits on '.' into exactly the accepted texts in their order.
C9_SerializationInOrder ==
    [][ /\ padding_blocks' # padding_blocks =>
               /\ padding_blocks' = Append(padding_blocks, entered')
               /\ ParseBlock(KindAt(Len(padding_blocks')), entered').ok
        /\ (pc # "padding_done" /\ pc' = "padding_done" /\ ViaBuilder') =>
               /\ padding_blocks' = padding_blocks
               /\ padding_blocks # <<>>
               /\ block_kinds[1] = "padding"
               /\ padding_config' # <<>>
               /\ split(padding_config', ".") = padding_blocks ]_vars

\* three accepted blocks came back dot-joined in the order of their entry
C9_Witness ==
    /\ pc = "padding_done"
    /\ padding_blocks = <<Triplet(100, 35, 50), Triplet(75, 0, 111), Triplet(50, 0, 3333)>>
    /\ padding_config =
           Triplet(100, 35, 50) \o <<".">> \o Triplet(75, 0, 111)
               \o <<".">> \o Triplet(50, 0, 3333)

\* C10: the final padding string, split on '.' and parsed segment by segment
\* with kinds by position, gives back the blocks that were assembled: the
\* builder's blocks under the kinds they were added as, or the default chain.
C10_RoundTrip ==
    pc = "padding_done" =>
        IF ViaBuilder
        THEN /\ ParseChain(padding_config) =
                    [i \in 1..Len(padding_blocks) |->
                        ParseBlock(block_kinds[i], padding_blocks[i])]
             /\ \A i \in 1..Len(padding_blocks) :
                    ParseBlock(block_kinds[i], padding_blocks[i]).ok
        ELSE ParseChain(padding_config) =
                 << [kind |-> "padding", ok |-> TRUE, probability |-> 100,
                     min |-> 111, max |-> 1111],
                    [kind |-> "delay", ok |-> TRUE, probability |-> 75,
                     min |-> 0, max |-> 111],
                    [kind |-> "padding", ok |-> TRUE, probability |-> 50,
                     min |-> 0, max |-> 3333] >>

\* a two-block chain built by hand was returned
C10_Witness ==
    /\ pc = "padding_done"
    /\ ViaBuilder
    /\ ParseChain(padding_config) =
           << [kind |-> "padding", ok |-> TRUE, probability |-> 100,
               min |-> 111, max |-> 1111],
              [kind |-> "delay", ok |-> TRUE, probability |-> 0,
               min |-> 0, max |-> 0] >>

\* C11: after any answer to the default-padding prompt other than n / no the
\* builder is never entered (no builder prompt, no block collected) and the
\* padding string is exactly 100-111-1111 . 75-0-111 . 50-0-3333, read by
\* position as padding, delay, padding; each of the three segments passes the
\* validator, the first has probability 100 and min >= FIRST_MIN.
C11_DefaultChain ==
    (pc # "ask_default" /\ ~ViaBuilder) =>
        /\ pc = "padding_done"
        /\ padding_blocks = <<>> /\ block_kinds = <<>> /\ last_block_type = "none"
        /\ padding_config =
               <<"1", "0", "0", "-", "1", "1", "1", "-", "1", "1", "1", "1", ".", "7", "5", "-", "0", "-", "1", "1", "1", ".", "5", "0", "-", "0", "-", "3", "3", "3", "3">>
        /\ LET segs == split(padding_config, ".")
                chain == ParseChain(padding_config)
           IN  /\ Len(segs) = 3
               /\ \A i \in 1..3 :
                      validate_padding_format(segs[i]) = [returns |-> <<TRUE, "">>]
               /\ <<chain[1].kind, chain[2].kind, chain[3].kind>> =
                      <<"padding", "delay", "padding">>
               /\ chain[1].probability = 100 /\ chain[1].min >= FIRST_MIN

\* the prompt was answered with a blank line and the default chain was taken
C11_Witness ==
    /\ pc = "padding_done"
    /\ entered = <<>>
    /\ use_default_padding = <<>>
    /\ padding_config = DEFAULT_PADDING

----------------------------------------------------------------------------
(* Properties of the composition (checked under SpecCompose).              *)

\* the dot-separated segments of a composed string
Segments(s) == split(s, ".")

\* C13: a field that is the empty string is dropped from the join: neither
\* composed string has an empty segment (no leading, trailing or doubled '.'),
\* and when the ticket time is empty the server string has exactly one segment
\* fewer than it has with a non-empty ticket time and the same other fields.
C13_EmptyFieldElision ==
    pc = "confirm" =>
        /\ \A i \in 1..Len(Segments(decryption_str)) : Segments(decryption_str)[i] # <<>>
        /\ \A i \in 1..Len(Segments(encryption_str)) : Segments(encryption_str)[i] # <<>>
        /\ ticket_time = <<>> =>
               \A ticket \in ComposeTickets \ {<<>>} :
                   Len(Segments(compose(decryption_parts(encryption_mode, ticket, rtt_mode,
                           padding_config, x25519[1], mlkem768[1]))))
                       = Len(Segments(decryption_str)) + 1

\* composed with an empty ticket time and an empty key: tag.mode.padding.seed
C13_Witness ==
    /\ pc = "confirm"
    /\ ticket_time = <<>>
    /\ x25519[1] = <<>>
    /\ decryption_str = TAG \o <<".">> \o XORPUB \o <<".">> \o Triplet(100, 35, 50)
                             \o <<".">> \o SEED

----------------------------------------------------------------------------
(* Properties of the collector and the installer (checked under            *)
(* SpecInstall).                                                           *)

\* both strings have been composed
Composed == decryption_str # <<>> /\ encryption_str # <<>>

\* the answers 'y' and 'yes', lowered
YesAnswers == { <<"y">>, <<"y", "e", "s">> }

\* C12: the server string is tag . mode . ticket time . padding . X25519
\* private key . ML-KEM seed and the client string is tag . mode . rtt mode .
\* padding . X25519 password . ML-KEM client key, each joined with '.' in this
\* order; no segment of the server string is the rtt mode or a client-side
\* key, no segment of the client string is the ticket time or a server-side key.
C12_FixedFieldOrder ==
    Composed =>
        /\ decryption_str =
               TAG \o <<".">> \o encryption_mode \o <<".">> \o ticket_time \o <<".">>
                   \o padding_config \o <<".">> \o x25519[1] \o <<".">> \o mlkem768[1]
        /\ encryption_str =
               TAG \o <<".">> \o encryption_mode \o <<".">> \o rtt_mode \o <<".">>
                   \o padding_config \o <<".">> \o x25519[2] \o <<".">> \o mlkem768[2]
        /\ \A i \in 1..Len(Segments(decryption_str)) :
               Segments(decryption_str)[i] \notin {rtt_mode, x25519[2], mlkem768[2]}
        /\ \A i \in 1..Len(Segments(encryption_str)) :
               Segments(encryption_str)[i] \notin {ticket_time, x25519[1], mlkem768[1]}

\* composed from a custom ticket time, 0rtt and a chain of two typed blocks
C12_Witness ==
    /\ pc = "confirm"
    /\ Composed
    /\ ticket_time = <<"6", "0", "0", "s">>
    /\ rtt_mode = RTT_0
    /\ ViaBuilder
    /\ Len(padding_blocks) = 2

\* C14: in every collected configuration the two strings have the same number
\* of segments, the same tag at 1, the same mode at 2 and the same padding
\* segments from 4 on; they differ at most at segment 3 (ticket time against
\* rtt mode) and at the last two segments (the keys).
C14_SidesDifferOnlyInTheirFields ==
    Composed =>
        LET d == Segments(decryption_str)
            e == Segments(encryption_str)
            pad == Segments(padding_config)
            n == Len(Segments(padding_config))
        IN  /\ Len(d) = n + 5
            /\ Len(e) = n + 5
            /\ d[1] = TAG /\ e[1] = TAG
            /\ d[2] = encryption_mode /\ e[2] = encryption_mode
            /\ \A i \in 1..n : d[3 + i] = pad[i] /\ e[3 + i] = pad[i]
            /\ \A i \in 1..(n + 5) : d[i] # e[i] => i \in {3, n + 4, n + 5}
            /\ d[3] = ticket_time /\ e[3] = rtt_mode

\* a confirmed configuration in random mode with a chain of three typed blocks
C14_Witness ==
    /\ config # <<>>
    /\ encryption_mode = RANDOM
    /\ ViaBuilder
    /\ Len(padding_blocks) = 3
    /\ Len(Segments(decryption_str)) = 8

\* scenario 1: xorpub, ticket choice 1, 1rtt and the default padding
Scenario1 ==
    /\ Composed
    /\ encryption_mode = XORPUB
    /\ ticket_choice = <<"1">>
    /\ rtt_mode = RTT_1
    /\ ~ViaBuilder

\* C15 as stated: in scenario 1 the decryption string is
\* mlkem768x25519plus.xorpub.100-111-1111.75-0-111.50-0-3333.<privkey>.<seed>
\* and the encryption string mirrors it with the rtt mode and the client keys.
C15_Scenario1AsStated ==
    Scenario1 =>
        /\ decryption_str =
               <<"m", "l", "k", "e", "m", "7", "6", "8", "x", "2", "5", "5", "1", "9", "p", "l", "u", "s", ".", "x", "o", "r", "p", "u", "b", ".", "1", "0", "0", "-", "1", "1", "1", "-", "1", "1", "1", "1", ".", "7", "5", "-", "0", "-", "1", "1", "1", ".", "5", "0", "-", "0", "-", "3", "3", "3", "3", ".">>
                   \o x25519[1] \o <<".">> \o mlkem768[1]
        /\ encryption_str =
               <<"m", "l", "k", "e", "m", "7", "6", "8", "x", "2", "5", "5", "1", "9", "p", "l", "u", "s", ".", "x", "o", "r", "p", "u", "b", ".", "1", "r", "t", "t", ".", "1", "0", "0", "-", "1", "1", "1", "-", "1", "1", "1", "1", ".", "7", "5", "-", "0", "-", "1", "1", "1", ".", "5", "0", "-", "0", "-", "3", "3", "3", "3", ".">>
                   \o x25519[2] \o <<".">> \o mlkem768[2]

\* C15: in scenario 1 the ticket time is 0s and the decryption string is
\* mlkem768x25519plus.xorpub.0s.100-111-1111.75-0-111.50-0-3333.<privkey>.<seed>;
\* the encryption string is
\* mlkem768x25519plus.xorpub.1rtt.100-111-1111.75-0-111.50-0-3333.<password>.<client>.
C15_Scenario1 ==
    Scenario1 =>
        /\ decryption_str =
               <<"m", "l", "k", "e", "m", "7", "6", "8", "x", "2", "5", "5", "1", "9", "p", "l", "u", "s", ".", "x", "o", "r", "p", "u", "b", ".", "0", "s", ".", "1", "0", "0", "-", "1", "1", "1", "-", "1", "1", "1", "1", ".", "7", "5", "-", "0", "-", "1", "1", "1", ".", "5", "0", "-", "0", "-", "3", "3", "3", "3", ".">>
                   \o x25519[1] \o <<".">> \o mlkem768[1]
        /\ encryption_str =
               <<"m", "l", "k", "e", "m", "7", "6", "8", "x", "2", "5", "5", "1", "9", "p", "l", "u", "s", ".", "x", "o", "r", "p", "u", "b", ".", "1", "r", "t", "t", ".", "1", "0", "0", "-", "1", "1", "1", "-", "1", "1", "1", "1", ".", "7", "5", "-", "0", "-", "1", "1", "1", ".", "5", "0", "-", "0", "-", "3", "3", "3", "3", ".">>
                   \o x25519[2] \o <<".">> \o mlkem768[2]

\* scenario 1 with port 443 and identifier abc-123, at the summary prompt
C15_Witness ==
    /\ Scenario1
    /\ pc = "confirm"
    /\ port = 443
    /\ uuid = TYPED_UUID
    /\ x25519 = <<PRIVATE_KEY, PASSWORD>>
    /\ mlkem768 = <<SEED, CLIENT>>

\* C16 as stated: after ticket choice 1 the collected ticket time is the empty
\* string and the server string has no ticket-time segment.
C16_BlankTicketAsStated ==
    (Composed /\ ticket_choice = <<"1">>) =>
        /\ ticket_time = <<>>
        /\ Len(Segments(decryption_str)) = Len(Segments(padding_config)) + 4

\* C16: ticket choice 1 asks for no value and sets the ticket time to 0s; the
\* ticket time of a composed configuration is never empty and is always the
\* third segment of the server string.
C16_TicketAlwaysPresent ==
    /\ ticket_choice = <<"1">> => pc # "ticket_custom"
    /\ (ticket_choice = <<"1">> /\ pc \notin {"ticket", "exited"}) => ticket_time = <<"0", "s">>
    /\ Composed =>
           /\ ticket_time # <<>>
           /\ Segments(decryption_str)[3] = ticket_time
           /\ Len(Segments(decryption_str)) = Len(Segments(padding_config)) + 5

\* ticket choice 1 by a blank line, composed: the third segment is 0s
C16_Witness ==
    /\ Composed
    /\ ticket_choice = <<"1">>
    /\ Segments(decryption_str)[3] = <<"0", "s">>
    /\ pc = "confirm"

\* a custom entry the claim allows: integer seconds in [300,600] and an 's'
CustomAllowed(text) ==
    /\ text # <<>>
    /\ text[Len(text)] = "s"
    /\ IsIntLiteral(SubSeq(text, 1, Len(text) - 1))
    /\ int(SubSeq(text, 1, Len(text) - 1)) >= 300
    /\ int(SubSeq(text, 1, Len(text) - 1)) <= 600

\* C17: a ticket time, once set, is 0s or integer seconds in [300,600]
\* followed by 's', and a returned configuration carries it; a custom entry
\* out of that range, without the 's' or not an integer changes nothing and
\* the custom prompt waits again.
C17_TicketTime ==
    [][ /\ ticket_time' # <<>> =>
               ticket_time' = <<"0", "s">> \/ CustomAllowed(ticket_time')
        /\ config' # <<>> => config'[1].ticket_time = ticket_time'
        /\ (pc = "ticket_custom" /\ pc' # "exited" /\ ~CustomAllowed(entered')) =>
               pc' = "ticket_custom" /\ ticket_time' = ticket_time
        /\ (pc = "ticket_custom" /\ pc' # "exited" /\ CustomAllowed(entered')) =>
               pc' = "rtt" /\ ticket_time' = entered'
      ]_vars

\* a configuration with ticket time 600s was returned
C17_Witness ==
    /\ config # <<>>
    /\ ticket_choice = <<"2">>
    /\ ticket_time = <<"6", "0", "0", "s">>

\* the step of get_deployment_config a position belongs to, 0 before it and
\* 11 after it
StepOf(p) ==
    CASE p \in {"main", "check_dependencies", "detect_architecture", "install_mihomo"} -> 0
      [] p = "mode" -> 1
      [] p \in {"ticket", "ticket_custom"} -> 2
      [] p = "rtt" -> 3
      [] p \in {"ask_default", "first", "menu", "delay", "padding"} -> 4
      [] p = "padding_done" -> 5
      [] p = "mlkem768" -> 6
      [] p = "port" -> 7
      [] p = "uuid" -> 8
      [] p = "compose" -> 9
      [] p = "confirm" -> 10
      [] OTHER -> 11

\* C18: the collector goes through mode, ticket time, rtt mode, padding,
\* X25519 keys, ML-KEM keys, port, identifier, composition, confirmation in
\* this order, one step after the other; each step's result is set during its
\* own step only, with the results of all earlier steps in place, and the
\* X25519 keys are generated only once the padding string is final.
C18_StepsInOrder ==
    [][ pc' # "exited" =>
          /\ StepOf(pc') \in {StepOf(pc), StepOf(pc) + 1}
          /\ encryption_mode' # encryption_mode => StepOf(pc) = 1
          /\ ticket_time' # ticket_time => StepOf(pc) = 2 /\ encryption_mode # <<>>
          /\ rtt_mode' # rtt_mode => StepOf(pc) = 3 /\ ticket_time # <<>>
          /\ padding_config' # padding_config => StepOf(pc) = 4 /\ rtt_mode # <<>>
          /\ padding_blocks' # padding_blocks => StepOf(pc) = 4
          /\ x25519' # x25519 =>
                 StepOf(pc) = 5 /\ padding_config # <<>> /\ padding_config' = padding_config
          /\ StepOf(pc) >= 5 => padding_config' = padding_config
          /\ mlkem768' # mlkem768 => StepOf(pc) = 6 /\ x25519 # <<>>
          /\ port' # port => StepOf(pc) = 7 /\ mlkem768 # <<>>
          /\ uuid' # uuid => StepOf(pc) = 8 /\ port # 0
          /\ (decryption_str' # decryption_str \/ encryption_str' # encryption_str) =>
                 StepOf(pc) = 9 /\ uuid # <<>>
          /\ (confirm' # confirm \/ config' # config) => StepOf(pc) = 10 /\ Composed
      ]_vars

\* the summary prompt was reached after a chain of two typed blocks
C18_Witness ==
    /\ pc = "confirm"
    /\ ViaBuilder
    /\ Len(padding_blocks) = 2
    /\ x25519 # <<>>
    /\ mlkem768 # <<>>
    /\ port = 65535

\* C19: a configuration is returned, and the config file and the service unit
\* are written, only after the answer y or yes in any case; any other answer
\* ends the run at once with no configuration and nothing written, and a run
\* that has ended takes no further step.
C19_ConfirmOrAbort ==
    [][ /\ (config' # <<>> \/ written' # {}) => confirm' \in YesAnswers
        /\ written' # {} => config' # <<>>
        /\ (pc = "confirm" /\ lower(entered') \notin YesAnswers) =>
               /\ pc' = "exited"
               /\ process' # "running"
               /\ config' = <<>>
               /\ written' = {}
        /\ (pc = "confirm" /\ pc' # "exited") => lower(entered') \in YesAnswers
        /\ pc # "exited"
      ]_vars

\* the summary was answered n: the run is over and nothing was written
C19_Witness ==
    /\ confirm = <<"n">>
    /\ pc = "exited"
    /\ config = <<>>
    /\ written = {}

\* C20 as stated: after an answer other than y / yes at the summary prompt the
\* process is still running, control being back with the caller of install().
C20_AbortReturnsControlAsStated ==
    [][ (pc = "confirm" /\ confirm' \notin YesAnswers) => process' = "running" ]_vars

\* C20: an answer other than y / yes at the summary prompt ends the process
\* with exit status 1: the SystemExit raised by sys.exit(1) is caught by none
\* of install()'s handlers and control never returns to the caller.
C20_AbortExitsProcess ==
    [][ (pc = "confirm" /\ confirm' \notin YesAnswers) =>
            pc' = "exited" /\ process' = "exit1" ]_vars

\* the summary was answered ok and the process ended with status 1
C20_Witness ==
    /\ confirm = <<"o", "k">>
    /\ pc = "exited"
    /\ process = "exit1"

\* a key generation the claim calls failed: non-zero exit, timeout, or one of
\* the two labels nowhere in the output
KeyGenFailed(run, first, second) ==
    \/ run.returncode # 0
    \/ run.timed_out
    \/ ~contains(run.stdout, first)
    \/ ~contains(run.stdout, second)

\* C21: a key generation whose subprocess exits non-zero, times out or prints
\* no line with one of its two labels ends the installation at once with exit
\* status 1: no key is stored, no other run is tried, nothing is or will be
\* written; a key generation that goes on has stored two non-empty keys.
C21_KeyGenFailureIsFatal ==
    [][ /\ pc = "padding_done" =>
              /\ last_run' # <<>>
              /\ KeyGenFailed(last_run'[1], LABEL_PRIVATE, LABEL_PASSWORD) =>
                     /\ pc' = "exited" /\ process' = "exit1"
                     /\ x25519' = <<>> /\ written' = {} /\ config_file' = <<>>
              /\ pc' # "exited" =>
                     /\ pc' = "mlkem768"
                     /\ Len(x25519') = 2 /\ x25519'[1] # <<>> /\ x25519'[2] # <<>>
        /\ pc = "mlkem768" =>
              /\ last_run' # last_run
              /\ KeyGenFailed(last_run'[1], LABEL_SEED, LABEL_CLIENT) =>
                     /\ pc' = "exited" /\ process' = "exit1"
                     /\ mlkem768' = <<>> /\ written' = {} /\ config_file' = <<>>
              /\ pc' # "exited" =>
                     /\ pc' = "port"
                     /\ Len(mlkem768') = 2 /\ mlkem768'[1] # <<>> /\ mlkem768'[2] # <<>>
        /\ pc # "exited"
      ]_vars

\* the X25519 run printed no Password line and the installation ended
C21_Witness ==
    /\ pc = "exited"
    /\ process = "exit1"
    /\ last_run # <<>>
    /\ last_run[1].returncode = 0
    /\ ~last_run[1].timed_out
    /\ contains(last_run[1].stdout, LABEL_PRIVATE)
    /\ ~contains(last_run[1].stdout, LABEL_PASSWORD)
    /\ written = {}

----------------------------------------------------------------------------
(* Properties of the port selection (checked under SpecPort).             *)

\* an entry that is an integer in 1..65535
ExplicitPort(text) ==
    /\ IsIntLiteral(text)
    /\ int(text) >= 1
    /\ int(text) <= 65535

\* C22: the port prompt is answered once and gives a port in 1..65535 without
\* error or second prompt: an integer entry in 1..65535 is the port; after a
\* blank, non-integer or out-of-range entry the port is in 20000..60000 and
\* its four-digit hex text is in neither /proc/net/tcp nor /proc/net/udp.
C22_PortSelection ==
    [][ pc = "port" =>
          /\ pc' = "uuid"
          /\ process' = "running"
          /\ port' >= 1 /\ port' <= 65535
          /\ ExplicitPort(entered') => port' = int(entered')
          /\ ~ExplicitPort(entered') =>
                 /\ port' >= 20000 /\ port' <= 60000
                 /\ ~contains(proc_net[1], hex_port(port'))
                 /\ ~contains(proc_net[2], hex_port(port'))
      ]_vars

\* 65536 was typed while 20000 is bound on udp: the port is 60000
C22_Witness ==
    /\ pc = "uuid"
    /\ entered = <<"6", "5", "5", "3", "6">>
    /\ proc_net = << <<>>, SocketLine(hex_port(20000)) >>
    /\ port = 60000

----------------------------------------------------------------------------
(* Further properties of the collector and the installer (checked under    *)
(* SpecInstall).                                                           *)

\* the non-empty texts among parts, joined with '.'
RECURSIVE DotJoined(_)
DotJoined(parts) ==
    IF parts = <<>> THEN <<>>
    ELSE IF Head(parts) = <<>> THEN DotJoined(Tail(parts))
    ELSE IF DotJoined(Tail(parts)) = <<>> THEN Head(parts)
    ELSE Head(parts) \o <<".">> \o DotJoined(Tail(parts))

\* C23: in every returned configuration record decryption_str is the tag, the
\* record's encryption_mode, ticket_time, padding_config, x25519_private and
\* mlkem768_seed joined with '.', and encryption_str is the tag, the record's
\* encryption_mode, rtt_mode, padding_config, x25519_password and
\* mlkem768_client joined with '.'.
C23_StringsRegenerable ==
    config # <<>> =>
        LET c == config[1]
        IN  /\ c.decryption_str =
                   DotJoined(<<TAG, c.encryption_mode, c.ticket_time,
                               c.padding_config, c.x25519_private, c.mlkem768_seed>>)
            /\ c.encryption_str =
                   DotJoined(<<TAG, c.encryption_mode, c.rtt_mode,
                               c.padding_config, c.x25519_password, c.mlkem768_client>>)

\* a record was returned for native mode, 0rtt and a chain of two typed blocks
C23_Witness ==
    /\ config # <<>>
    /\ config[1].encryption_mode = NATIVE
    /\ config[1].rtt_mode = RTT_0
    /\ Len(Segments(config[1].padding_config)) = 2
    /\ config[1].port = 443

\* Reading a rendering back, as a YAML reader takes it: a text in quotes is a
\* string, " #" outside quotes starts a comment, digits alone are an integer,
\* true/false a boolean, anything else a string.
BeforeMark(text, mark) ==
    IF contains(text, mark)
    THEN LET i == CHOOSE k \in 1..Len(text) :
                      /\ SubSeq(text, k, k + Len(mark) - 1) = mark
                      /\ \A j \in 1..(k - 1) : SubSeq(text, j, j + Len(mark) - 1) # mark
         IN  SubSeq(text, 1, i - 1)
    ELSE text

YamlValue(raw) ==
    LET t == strip(raw)
        u == strip(BeforeMark(t, <<" ", "#">>))
    IN  IF Len(t) >= 2 /\ t[1] \in {"'", "\""} /\ t[Len(t)] = t[1]
        THEN [tag |-> "str", value |-> SubSeq(t, 2, Len(t) - 1)]
        ELSE IF u # <<>> /\ \A i \in 1..Len(u) : IsDigit(u[i])
        THEN [tag |-> "int", value |-> u]
        ELSE IF u \in {<<"t", "r", "u", "e">>, <<"f", "a", "l", "s", "e">>}
        THEN [tag |-> "bool", value |-> u]
        ELSE [tag |-> "str", value |-> u]

\* the key of one "key: value" piece, list dashes and braces aside
RECURSIVE KeyOf(_)
KeyOf(piece) ==
    IF piece # <<>> /\ Head(piece) \in {" ", "-", "{"} THEN KeyOf(Tail(piece))
    ELSE BeforeMark(piece, <<":">>)

\* the values a block-style text gives a key
BlockValues(text, key) ==
    LET lines == split(text, "\n")
    IN  { YamlValue(AfterFirst(lines[i], ":")) :
              i \in { j \in 1..Len(lines) : contains(lines[j], <<":">>) /\ KeyOf(lines[j]) = key } }

\* the values a one-line flow-style text gives a key
FlowValues(text, key) ==
    LET seen  == strip(BeforeMark(text, <<" ", "#">>))
        body  == IF seen # <<>> /\ seen[Len(seen)] = "}" THEN SubSeq(seen, 1, Len(seen) - 1) ELSE seen
        parts == split(body, ",")
    IN  { YamlValue(AfterFirst(parts[i], ":")) :
              i \in { j \in 1..Len(parts) : contains(parts[j], <<":">>) /\ KeyOf(parts[j]) = key } }

\* the number of lines of a text that open a list item at the given lead
Items(text, lead) ==
    LET lines == split(text, "\n")
    IN  Cardinality({ i \in 1..Len(lines) : startswith(lines[i], lead) })

YStr(text) == [tag |-> "str", value |-> text]
YInt(n) == [tag |-> "int", value |-> str(n)]
YBool(text) == [tag |-> "bool", value |-> text]

\* config.yaml has one listener with the record's port, one user with the
\* record's identifier, and the server-side string under 'decryption'
ServiceConfigCarriesRecord ==
    config_file # <<>> =>
        /\ Items(config_file[1], <<"-", " ">>) = 1
        /\ Items(config_file[1], <<" ", " ", "-", " ">>) = 1
        /\ BlockValues(config_file[1], <<"p", "o", "r", "t">>) = {YInt(config[1].port)}
        /\ BlockValues(config_file[1], <<"u", "u", "i", "d">>) = {YStr(config[1].uuid)}
        /\ BlockValues(config_file[1], <<"d", "e", "c", "r", "y", "p", "t", "i", "o", "n">>) = {YStr(config[1].decryption_str)}

\* the multi-line client snippet has the record's port and identifier, the
\* client-side string under 'encryption', and tls false
SnippetCarriesRecord ==
    printed # <<>> =>
        /\ BlockValues(printed[1], <<"p", "o", "r", "t">>) = {YInt(config[1].port)}
        /\ BlockValues(printed[1], <<"u", "u", "i", "d">>) = {YStr(config[1].uuid)}
        /\ BlockValues(printed[1], <<"e", "n", "c", "r", "y", "p", "t", "i", "o", "n">>) = {YStr(config[1].encryption_str)}
        /\ BlockValues(printed[1], <<"t", "l", "s">>) = {YBool(<<"f", "a", "l", "s", "e">>)}

\* the two renderings of the client snippet give port, uuid, encryption and
\* tls the same values
RenderingsAgree ==
    printed # <<>> =>
        \A key \in {<<"p", "o", "r", "t">>, <<"u", "u", "i", "d">>, <<"e", "n", "c", "r", "y", "p", "t", "i", "o", "n">>, <<"t", "l", "s">>} :
            FlowValues(printed[2], key) = BlockValues(printed[1], key)

\* neither string shows up on the other side
StringsKeptApart ==
    /\ printed # <<>> =>
           /\ ~contains(printed[1], config[1].decryption_str)
           /\ ~contains(printed[2], config[1].decryption_str)
    /\ config_file # <<>> => ~contains(config_file[1], config[1].encryption_str)

\* C24: config.yaml has exactly one listener with the record's port, one user
\* with the record's identifier and the server-side string under
\* 'decryption'; the client snippet has the same port and identifier, the
\* client-side string under 'encryption' and tls false; its multi-line and
\* one-line renderings give port, uuid, encryption and tls the same values;
\* the server-side string is not in the client snippet and the client-side
\* string is not in config.yaml.
C24_EmitterRenderings ==
    /\ ServiceConfigCarriesRecord
    /\ SnippetCarriesRecord
    /\ RenderingsAgree
    /\ StringsKeptApart

\* C25: Ctrl-C can be pressed at every prompt of the installation; a step that
\* ends the run from a prompt ends the process with exit status 1 and leaves
\* nothing persisted; config.yaml exists only in runs where the collector
\* has returned a complete configuration after the answer y or yes.
C25_InterruptPersistsNothing ==
    [][ /\ pc \in Prompts => ENABLED Interrupt
        /\ (pc \in Prompts /\ pc' = "exited") =>
               /\ process' = "exit1"
               /\ config' = <<>>
               /\ written' = {}
               /\ config_file' = <<>>
        /\ ("config.yaml" \in written' \/ config_file' # <<>>) =>
               /\ confirm' \in YesAnswers
               /\ config' # <<>>
               /\ config'[1].decryption_str # <<>>
               /\ config'[1].encryption_str # <<>>
               /\ config'[1].port # 0
               /\ config'[1].uuid # <<>>
      ]_vars

\* Ctrl-C after the mode was chosen and before the handshake was: the process
\* has ended with status 1 and nothing was written
C25_Witness ==
    /\ pc = "exited"
    /\ process = "exit1"
    /\ encryption_mode # <<>>
    /\ rtt_mode = <<>>
    /\ written = {}
    /\ config_file = <<>>

\* C26: after a Padding block the only block added is a Delay, after a Delay
\* block the only block added is a Padding; a menu answer other than 1 or 2
\* and an empty or validator-rejected block entry leave the list, the kinds
\* and the last kind as they were and the prompt is shown again; no error
\* leaves configure_padding.
C26_MenuFrame ==
    [][ /\ (padding_blocks' # padding_blocks /\ last_block_type = "padding") =>
               /\ pc = "delay"
               /\ block_kinds' = Append(block_kinds, "delay")
               /\ padding_blocks' = Append(padding_blocks, entered')
               /\ last_block_type' = "delay"
        /\ (padding_blocks' # padding_blocks /\ last_block_type = "delay") =>
               /\ pc = "padding"
               /\ block_kinds' = Append(block_kinds, "padding")
               /\ padding_blocks' = Append(padding_blocks, entered')
               /\ last_block_type' = "padding"
        /\ (pc = "menu" /\ entered' \notin { <<"1">>, <<"2">> }) =>
               /\ pc' = "menu"
               /\ UNCHANGED <<padding_blocks, block_kinds, last_block_type, padding_config>>
        /\ (pc \in {"first", "delay", "padding"}
              /\ (entered' = <<>> \/ ~validate_padding_format(entered').returns[1])) =>
               /\ pc' = pc
               /\ UNCHANGED <<padding_blocks, block_kinds, last_block_type, padding_config>>
        /\ pc' # "raised"
      ]_vars

\* "a0-0-10" was entered as the delay after the first padding: the builder
\* still asks for the delay, with one block
C26_Witness ==
    /\ pc = "delay"
    /\ entered = <<"a">> \o Triplet(0, 0, 10)
    /\ valid_error[1] = FALSE
    /\ block_kinds = <<"padding">>
    /\ last_block_type = "padding"

\* the user does not go on entering rejected blocks for ever at one prompt
EntersValidBlocks == \A p \in {"first", "delay", "padding"} : []<>(pc # p)

\* C27: the answer 2 at the menu, after a Padding as after a Delay, ends the
\* builder at once: the list is left as it is and the string returned is
\* its blocks joined; the ended builder takes no further step; and with a
\* user who in the end enters an acceptable block and in the end chooses
\* finish, every builder prompt leads to the end of the builder.
C27_FinishReachesDone ==
    /\ [][ /\ (pc = "menu" /\ entered' = <<"2">>) =>
                  /\ pc' = "padding_done"
                  /\ padding_blocks # <<>>
                  /\ padding_blocks' = padding_blocks
                  /\ block_kinds' = block_kinds
                  /\ padding_config' = join(".", padding_blocks)
           /\ pc # "padding_done"
         ]_vars
    /\ EntersValidBlocks => ((pc \in BuilderPrompts) ~> (pc = "padding_done" /\ ViaBuilder))

\* finish was chosen after a Delay: the builder has ended with two blocks
C27_Witness ==
    /\ pc = "padding_done"
    /\ entered = <<"2">>
    /\ block_kinds = <<"padding", "delay">>
    /\ padding_config = join(".", padding_blocks)

\* C28: the two strings of one run read back to parameters that agree: the
\* same mode and the same padding blocks, and the client string has '0rtt'
\* only when the server string's ticket time is not '0s'; '0s' on the server
\* with '0rtt' on the client is never produced.
C28_RttMatchesTicket ==
    Composed =>
        LET d == Segments(decryption_str)
            e == Segments(encryption_str)
            n == Len(Segments(padding_config))
        IN  /\ d[2] = e[2]
            /\ SubSeq(d, 4, n + 3) = SubSeq(e, 4, n + 3)
            /\ e[3] = RTT_0 => d[3] # <<"0", "s">>

\* the place of a step in install(): main block, dependency check,
\* architecture detection, binary installation, collection, config file,
\* service, final info, end of the run
InstallStepOf(p) ==
    CASE p = "main" -> 0
      [] p = "check_dependencies" -> 1
      [] p = "detect_architecture" -> 2
      [] p = "install_mihomo" -> 3
      [] p = "generate_config" -> 5
      [] p = "create_systemd_service" -> 6
      [] p = "print_final_info" -> 7
      [] p = "exited" -> 8
      [] OTHER -> 4

C30_MenuPresented == (pc = "print_banner") ~> (pc = "main_menu")

====
